---- MODULE Spec2Model ----
(***************************************************************************)
(* Model of the GitLab side of claude-code-action: the prepare entrypoint  *)
(* (token, context, permission gate, trigger evaluator, human check,       *)
(* tracking comment, data fetch, branch setup, branch announcement), the   *)
(* finalize entrypoint (update-comment-link), the provider operations      *)
(* behind them, and the pure functions they are built from.                *)
(*                                                                         *)
(* Strings are sequences.  Texts that are searched for a trigger phrase    *)
(* are sequences of one-character strings; comment bodies are sequences    *)
(* of tokens cut so that every pattern the code searches for (includes,    *)
(* indexOf, the header regex) is a run of whole tokens.                    *)
(***************************************************************************)
EXTENDS Integers, Sequences, FiniteSets, TLC

VARIABLES
    env,       \* process.env of the CI job, read by both entrypoints
    branches,  \* platform: names of the branches that exist
    notes,     \* platform: notes of the entity, a function id -> body
    prep,      \* the prepare process: position, stage results, outputs
    fin,       \* the finalize process / the provider's updateFinalComment call
    writes,    \* every write call issued to the platform, in order
    logs,      \* console lines of interest
    trig,      \* last direct application of checkTriggerAction
    fetchRun,  \* a direct call of fetchGitLabData, request by request
    setupRun   \* a direct call of the token, context and client set-up functions

vars == <<env, branches, notes, prep, fin, writes, logs, trig, fetchRun, setupRun>>

---------------------------------------------------------------------------
(* Bounds *)

MaxPhraseLen == 2   \* longest trigger phrase, in characters
MaxTextLen == 3     \* longest title / description / note body, in characters
MaxProgress == 1    \* in-flight progress updates per run
MaxDiffLines == 4   \* longest diff text, in lines

---------------------------------------------------------------------------
(* JavaScript string primitives, on sequences *)

Chars == {"@", "c", "C"}

toLowerChar(ch) == IF ch = "C" THEN "c" ELSE ch

\* a comparison that keeps the case of its text
keepCase(s) == s

toLowerCase(s) == [i \in 1..Len(s) |-> toLowerChar(s[i])]

\* String.prototype.includes: p occurs in s as a contiguous run
includes(s, p) ==
    \E i \in 0..(Len(s) - Len(p)) : SubSeq(s, i + 1, i + Len(p)) = p

\* String.prototype.indexOf, 0-based, -1 when absent
indexOf(s, p) ==
    IF includes(s, p)
    THEN CHOOSE i \in 0..(Len(s) - Len(p)) :
            /\ SubSeq(s, i + 1, i + Len(p)) = p
            /\ \A j \in 0..(i - 1) : SubSeq(s, j + 1, j + Len(p)) # p
    ELSE -1

\* s.slice(0, k) and s.slice(k)
sliceTo(s, k) == SubSeq(s, 1, k)
sliceFrom(s, k) == SubSeq(s, k + 1, Len(s))

SeqsUpTo(S, n) == UNION {[1..k -> S] : k \in 0..n}

Texts == SeqsUpTo(Chars, MaxTextLen)
Phrases == SeqsUpTo(Chars, MaxPhraseLen)

---------------------------------------------------------------------------
(* Trigger evaluator: src/gitlab/validation/trigger.ts                     *)
(* A context is the GitLabContext record; "" and <<>> stand for an unset   *)
(* (falsy) value.  An upstream response is [ok |-> BOOLEAN, ...].          *)

\* checkTriggerPhraseInEntity: [result, fetches]
checkTriggerPhraseInEntity(context, entityResp, triggerPhrase) ==
    IF context.mergeRequestIid = "" /\ context.issueIid = ""
    THEN [result |-> FALSE, fetches |-> 0]
    ELSE IF ~entityResp.ok
    THEN [result |-> FALSE, fetches |-> 1]
    ELSE LET triggerLower == toLowerCase(triggerPhrase)
             inDescription ==
                 /\ entityResp.description # <<>>
                 /\ includes(toLowerCase(entityResp.description), triggerLower)
             inTitle ==
                 /\ entityResp.title # <<>>
                 /\ includes(toLowerCase(entityResp.title), triggerLower)
         IN [result |-> inDescription \/ inTitle, fetches |-> 1]

\* checkTriggerPhraseInComments: [result, fetches]
checkTriggerPhraseInComments(context, notesResp, triggerPhrase) ==
    IF context.mergeRequestIid = "" /\ context.issueIid = ""
    THEN [result |-> FALSE, fetches |-> 0]
    ELSE IF ~notesResp.ok
    THEN [result |-> FALSE, fetches |-> 1]
    ELSE LET triggerLower == toLowerCase(triggerPhrase)
             found == \E k \in 1..Len(notesResp.bodies) :
                         /\ notesResp.bodies[k] # <<>>
                         /\ includes(toLowerCase(notesResp.bodies[k]), triggerLower)
         IN [result |-> found, fetches |-> 1]

\* assigneeTrigger.replace("@", "")
stripAt(name) ==
    LET k == indexOf(name, <<"@">>)
    IN IF k = -1 THEN name ELSE sliceTo(name, k) \o sliceFrom(name, k + 1)

\* checkAssigneeTrigger: [result, fetches]
checkAssigneeTrigger(context, entityResp, assigneeTrigger) ==
    IF context.mergeRequestIid = "" /\ context.issueIid = ""
    THEN [result |-> FALSE, fetches |-> 0]
    ELSE IF ~entityResp.ok
    THEN [result |-> FALSE, fetches |-> 1]
    ELSE IF context.mergeRequestIid # ""
    THEN [result |-> entityResp.assignee = stripAt(assigneeTrigger), fetches |-> 1]
    ELSE [result |-> stripAt(assigneeTrigger) \in entityResp.assignees, fetches |-> 1]

\* an evaluator that looks at the entity before the direct prompt
checkTriggerActionEntityFirst(context, entityResp, notesResp) ==
    LET inputs == context.inputs
        inEntity == checkTriggerPhraseInEntity(context, entityResp, inputs.triggerPhrase)
    IN  IF context.mergeRequestIid = "" /\ context.issueIid = ""
        THEN [result |-> FALSE, fetches |-> 0, why |-> "no-entity",
              throws |-> FALSE]
        ELSE IF inEntity.result
        THEN [result |-> TRUE, fetches |-> inEntity.fetches, why |-> "entity",
              throws |-> FALSE]
        ELSE [result |-> inputs.directPrompt # "", fetches |-> inEntity.fetches,
              why |-> "direct",
              throws |-> FALSE]

\* an evaluator that gives up when the entity fetch fails
checkTriggerActionAborting(context, entityResp, notesResp) ==
    LET inputs == context.inputs
        inEntity == checkTriggerPhraseInEntity(context, entityResp, inputs.triggerPhrase)
        inComments == checkTriggerPhraseInComments(context, notesResp, inputs.triggerPhrase)
    IN  IF inputs.directPrompt # ""
        THEN [result |-> TRUE, fetches |-> 0, why |-> "direct",
              throws |-> FALSE]
        ELSE IF context.mergeRequestIid = "" /\ context.issueIid = ""
        THEN [result |-> FALSE, fetches |-> 0, why |-> "no-entity",
              throws |-> FALSE]
        ELSE IF ~entityResp.ok
        THEN [result |-> FALSE, fetches |-> 1, why |-> "aborted",
              throws |-> FALSE]
        ELSE IF inEntity.result
        THEN [result |-> TRUE, fetches |-> inEntity.fetches, why |-> "entity",
              throws |-> FALSE]
        ELSE [result |-> inComments.result,
              fetches |-> inEntity.fetches + inComments.fetches,
              why |-> IF inComments.result THEN "comment" ELSE "phrase-not-found",
              throws |-> FALSE]

\* checkTriggerAction: [result, fetches, why, throws]; every upstream error is
\* caught inside the sub-check that made the request, so nothing is thrown
checkTriggerAction(context, entityResp, notesResp) ==
    LET inputs == context.inputs
        inEntity == checkTriggerPhraseInEntity(context, entityResp, inputs.triggerPhrase)
        inComments == checkTriggerPhraseInComments(context, notesResp, inputs.triggerPhrase)
        assigned == checkAssigneeTrigger(context, entityResp, inputs.assigneeTrigger)
    IN  IF inputs.directPrompt # ""
        THEN [result |-> TRUE, fetches |-> 0, why |-> "direct",
              throws |-> FALSE]
        ELSE IF context.mergeRequestIid = "" /\ context.issueIid = ""
        THEN [result |-> FALSE, fetches |-> 0, why |-> "no-entity",
              throws |-> FALSE]
        ELSE IF inputs.triggerPhrase # <<>>
        THEN IF inEntity.result
             THEN [result |-> TRUE, fetches |-> inEntity.fetches, why |-> "entity",
                   throws |-> FALSE]
             ELSE IF inComments.result
             THEN [result |-> TRUE,
                   fetches |-> inEntity.fetches + inComments.fetches,
                   why |-> "comment",
                   throws |-> FALSE]
             ELSE [result |-> FALSE,
                   fetches |-> inEntity.fetches + inComments.fetches,
                   why |-> "phrase-not-found",
                   throws |-> FALSE]
        ELSE IF inputs.assigneeTrigger # <<>>
        THEN [result |-> assigned.result, fetches |-> assigned.fetches,
              why |-> IF assigned.result THEN "assignee" ELSE "not-assigned",
              throws |-> FALSE]
        ELSE [result |-> FALSE, fetches |-> 0, why |-> "nothing-configured",
              throws |-> FALSE]

---------------------------------------------------------------------------
(* Token selection: src/gitlab/token.ts                                    *)

\* setupGitLabToken: [ok, token, kind]
setupGitLabToken(e) ==
    IF e.OVERRIDE_GITLAB_TOKEN # ""
    THEN [ok |-> TRUE, token |-> e.OVERRIDE_GITLAB_TOKEN, kind |-> "override"]
    ELSE IF e.CI_JOB_TOKEN # ""
    THEN [ok |-> TRUE, token |-> e.CI_JOB_TOKEN, kind |-> "job"]
    ELSE IF e.GITLAB_TOKEN # ""
    THEN [ok |-> TRUE, token |-> e.GITLAB_TOKEN, kind |-> "personal"]
    ELSE IF e.GITLAB_PROJECT_TOKEN # ""
    THEN [ok |-> TRUE, token |-> e.GITLAB_PROJECT_TOKEN, kind |-> "project"]
    ELSE [ok |-> FALSE, token |-> "", kind |-> "none"]

---------------------------------------------------------------------------
(* Context resolver: src/gitlab/context.ts                                 *)
(* CI_PROJECT_PATH is the sequence of its "/"-separated segments.          *)

firstSet(a, b) == IF a # "" THEN a ELSE b

DefaultTriggerPhrase == <<"@", "c">>    \* stands for "@claude"

\* a parse that leaves an unset trigger phrase empty
parseGitLabContextKeepingPhrase(e) ==
    [ok |-> e.CI_PROJECT_PATH # <<>> /\ e.CI_PROJECT_ID # "",
     error |-> "",
     context |-> [projectPath |-> e.CI_PROJECT_PATH,
                  projectId |-> e.CI_PROJECT_ID,
                  mergeRequestIid |-> e.CI_MERGE_REQUEST_IID,
                  issueIid |-> e.GITLAB_ISSUE_IID,
                  branch |-> e.CI_COMMIT_REF_NAME,
                  defaultBranch |-> e.CI_DEFAULT_BRANCH,
                  triggerUser |-> e.GITLAB_USER_LOGIN,
                  inputs |-> [triggerPhrase |-> e.TRIGGER_PHRASE,
                              assigneeTrigger |-> e.ASSIGNEE_TRIGGER,
                              baseBranch |-> e.BASE_BRANCH,
                              directPrompt |-> e.DIRECT_PROMPT]]]

\* parseGitLabContext: [ok, error, context]
parseGitLabContext(e) ==
    LET context ==
          [projectPath |-> e.CI_PROJECT_PATH,
           projectId |-> e.CI_PROJECT_ID,
           mergeRequestIid |-> e.CI_MERGE_REQUEST_IID,
           issueIid |-> e.GITLAB_ISSUE_IID,
           branch |-> firstSet(e.CI_COMMIT_REF_NAME, firstSet(e.CI_DEFAULT_BRANCH, "main")),
           defaultBranch |-> firstSet(e.CI_DEFAULT_BRANCH, "main"),
           triggerUser |-> firstSet(e.GITLAB_USER_LOGIN,
                              firstSet(e.CI_COMMIT_AUTHOR, e.TRIGGER_USERNAME)),
           inputs |-> [triggerPhrase |-> IF e.TRIGGER_PHRASE # <<>>
                                         THEN e.TRIGGER_PHRASE
                                         ELSE DefaultTriggerPhrase,
                       assigneeTrigger |-> e.ASSIGNEE_TRIGGER,
                       baseBranch |-> e.BASE_BRANCH,
                       directPrompt |-> e.DIRECT_PROMPT]]
    IN  IF e.CI_PROJECT_PATH = <<>>
        THEN [ok |-> FALSE, error |-> "CI_PROJECT_PATH environment variable is required",
              context |-> context]
        ELSE IF e.CI_PROJECT_ID = ""
        THEN [ok |-> FALSE, error |-> "CI_PROJECT_ID environment variable is required",
              context |-> context]
        ELSE [ok |-> TRUE, error |-> "", context |-> context]

\* parseInt(s, 10) on the identifier strings of this model
parseInt(s) ==
    CASE s = "5" -> [nan |-> FALSE, val |-> 5]
      [] s = "7" -> [nan |-> FALSE, val |-> 7]
      [] s = "0" -> [nan |-> FALSE, val |-> 0]
      [] s = "1" -> [nan |-> FALSE, val |-> 1]
      [] s = "2" -> [nan |-> FALSE, val |-> 2]
      [] s = "-1" -> [nan |-> FALSE, val |-> -1]
      [] OTHER   -> [nan |-> TRUE, val |-> 0]

\* parseEntityNumber: [ok, error, value]
parseEntityNumber(entityId) ==
    IF entityId = ""
    THEN [ok |-> FALSE, error |-> "No entity ID found", value |-> 0]
    ELSE LET parsed == parseInt(entityId)
         IN IF parsed.nan \/ parsed.val <= 0
            THEN [ok |-> FALSE, error |-> "Invalid entity ID", value |-> 0]
            ELSE [ok |-> TRUE, error |-> "", value |-> parsed.val]

\* convertToProviderContext: [ok, error, context]
convertToProviderContext(gitlabContext) ==
    LET entityNumber ==
            parseEntityNumber(firstSet(gitlabContext.mergeRequestIid,
                                       gitlabContext.issueIid))
        none == [provider |-> "gitlab", owner |-> "", name |-> "",
                 entityType |-> "", entityNumber |-> 0,
                 actor |-> gitlabContext.triggerUser]
    IN  IF Len(gitlabContext.projectPath) < 2
        THEN [ok |-> FALSE, error |-> "Invalid project path format", context |-> none]
        ELSE IF ~entityNumber.ok
        THEN [ok |-> FALSE, error |-> entityNumber.error, context |-> none]
        ELSE [ok |-> TRUE, error |-> "",
              context |-> [provider |-> "gitlab",
                           owner |-> gitlabContext.projectPath[1],
                           name |-> gitlabContext.projectPath[2],
                           entityType |-> IF gitlabContext.mergeRequestIid # ""
                                          THEN "merge_request" ELSE "issue",
                           entityNumber |-> entityNumber.value,
                           actor |-> gitlabContext.triggerUser]]

---------------------------------------------------------------------------
(* Permission gate: src/gitlab/validation/permissions.ts                   *)

DEVELOPER == 30

AccessLevels == {0, 5, 10, 20, 30, 40, 50}

accessLevelName(level) ==
    CASE level = 10 -> "Guest"
      [] level = 20 -> "Reporter"
      [] level = 30 -> "Developer"
      [] level = 40 -> "Maintainer"
      [] level = 50 -> "Owner"
      [] OTHER -> "Unknown"

\* a gate whose threshold is Reporter
hasReporterAccess(member) == member.access_level >= 20

hasWriteAccess(member) == member.access_level >= DEVELOPER

\* a gate that fails closed on every failed lookup
checkWritePermissionsClosed(context, memberResp, e) ==
    IF context.triggerUser = ""
    THEN [result |-> FALSE, fetches |-> 0,
          log |-> "No trigger user found, cannot check permissions"]
    ELSE IF memberResp.ok
    THEN [result |-> hasWriteAccess(memberResp), fetches |-> 1,
          log |-> accessLevelName(memberResp.access_level)]
    ELSE [result |-> FALSE, fetches |-> 1,
          log |-> "Error checking write permissions"]

\* checkWritePermissions: [result, fetches, log]
\* memberResp is the answer of GET /projects/:id/members/all/:username
checkWritePermissions(context, memberResp, e) ==
    IF context.triggerUser = ""
    THEN [result |-> FALSE, fetches |-> 0,
          log |-> "No trigger user found, cannot check permissions"]
    ELSE IF memberResp.ok
    THEN [result |-> hasWriteAccess(memberResp), fetches |-> 1,
          log |-> accessLevelName(memberResp.access_level)]
    ELSE IF e.CI_JOB_TOKEN # ""
    THEN [result |-> TRUE, fetches |-> 1,
          log |-> "Running in CI with job token, assuming write permissions"]
    ELSE [result |-> FALSE, fetches |-> 1,
          log |-> "Error checking write permissions"]

---------------------------------------------------------------------------
(* Human check: src/gitlab/validation/trigger.ts (actor part)              *)

\* a human check that aborts when the profile cannot be retrieved
checkHumanActorStrict(context, userResp) ==
    IF context.triggerUser = ""
    THEN [throws |-> FALSE, fetches |-> 0, log |-> ""]
    ELSE IF ~userResp.ok
    THEN [throws |-> TRUE, fetches |-> 1, log |-> "Could not verify actor"]
    ELSE IF userResp.bot
    THEN [throws |-> TRUE, fetches |-> 1, log |-> "Action triggered by bot account"]
    ELSE [throws |-> FALSE, fetches |-> 1, log |-> "Actor is a human user"]

\* checkHumanActor: [throws, fetches, log]; userResp answers GET /users/:name
checkHumanActor(context, userResp) ==
    IF context.triggerUser = ""
    THEN [throws |-> FALSE, fetches |-> 0, log |-> ""]
    ELSE IF ~userResp.ok
    THEN [throws |-> FALSE, fetches |-> 1, log |-> "Could not verify actor"]
    ELSE IF userResp.bot
    THEN [throws |-> TRUE, fetches |-> 1, log |-> "Action triggered by bot account"]
    ELSE [throws |-> FALSE, fetches |-> 1, log |-> "Actor is a human user"]

---------------------------------------------------------------------------
(* Tracking comment bodies                                                 *)
(* The emoji of the three headers are left out of the tokens.              *)

NL == "\n"
Marker == "<!-- claude-tracker -->"
ThinkingHeader == "## Claude is thinking..."
SuccessHeader == "## Claude completed the task"
ErrorHeader == "## Claude encountered an error"
WorkingOn == "Working on branch:"
JobLinkOpen == "[View GitLab CI Job]("
TriggeredBy == " * Triggered by @"
Bullet == " * "
CodeFence == "~~~"    \* stands for the three-backtick fence

introLine(context) ==
    IF context.mergeRequestIid # ""
    THEN "I'll analyze this merge request and start working on it."
    ELSE "I'll analyze this issue and start working on it."

\* createInitialComment's commentBody (create-initial.ts)
initialBody(context) ==
    <<ThinkingHeader, NL, NL, introLine(context), NL, NL, Marker>>

\* `${projectUrl}/-/tree/${encodeURIComponent(branchName)}`
branchUrl(branchName) == <<"/-/tree/", branchName>>

\* updateTrackingComment's updatedBody (update-with-branch.ts)
announcedBody(context, branchName) ==
    <<ThinkingHeader, NL, NL, introLine(context), NL, NL,
      "**", WorkingOn, "**", " ", "[", branchName, "]", "(">>
    \o branchUrl(branchName) \o <<")", NL, NL, Marker>>

---------------------------------------------------------------------------
(* Branch lifecycle: src/gitlab/operations/branch.ts, branch-cleanup.ts    *)

issueBranchName(issueIid) == "claude-issue-" \o issueIid

NoPlan == [baseBranch |-> "", currentBranch |-> "", claudeBranch |-> ""]

\* a setupBranch that takes the base branch from the repository default
\* whatever the base-branch input or the merge request says
setupBranchFromDefault(data, context, existsResp, createOk) ==
    IF context.mergeRequestIid # "" /\ data.mergeRequest.present
    THEN [throws |-> FALSE, gets |-> 0, posts |-> 0, created |-> "", ref |-> "",
          plan |-> [baseBranch |-> data.repository.defaultBranch,
                    currentBranch |-> data.mergeRequest.sourceBranch,
                    claudeBranch |-> ""]]
    ELSE IF context.issueIid # "" /\ data.issue.present
    THEN LET baseBranch == data.repository.defaultBranch
             branchName == issueBranchName(context.issueIid)
             plan == [baseBranch |-> baseBranch, currentBranch |-> branchName,
                      claudeBranch |-> branchName]
         IN IF existsResp.ok
            THEN [throws |-> FALSE, gets |-> 1, posts |-> 0, created |-> "",
                  ref |-> "", plan |-> plan]
            ELSE IF createOk
            THEN [throws |-> FALSE, gets |-> 1, posts |-> 1, created |-> branchName,
                  ref |-> baseBranch, plan |-> plan]
            ELSE [throws |-> TRUE, gets |-> 1, posts |-> 1, created |-> "",
                  ref |-> baseBranch, plan |-> NoPlan]
    ELSE [throws |-> FALSE, gets |-> 0, posts |-> 0, created |-> "", ref |-> "",
          plan |-> [baseBranch |-> data.repository.defaultBranch,
                    currentBranch |-> firstSet(context.branch,
                                               data.repository.defaultBranch),
                    claudeBranch |-> ""]]

\* setupBranch: [throws, plan, gets (GETs issued), posts (POSTs issued), created,
\* ref (the ref of the POST)]
\* existsResp answers GET .../repository/branches/:name, createOk the POST
setupBranch(data, context, existsResp, createOk) ==
    IF context.mergeRequestIid # "" /\ data.mergeRequest.present
    THEN [throws |-> FALSE, gets |-> 0, posts |-> 0, created |-> "", ref |-> "",
          plan |-> [baseBranch |-> data.mergeRequest.targetBranch,
                    currentBranch |-> data.mergeRequest.sourceBranch,
                    claudeBranch |-> ""]]
    ELSE IF context.issueIid # "" /\ data.issue.present
    THEN LET baseBranch == firstSet(context.inputs.baseBranch,
                                    data.repository.defaultBranch)
             branchName == issueBranchName(context.issueIid)
             plan == [baseBranch |-> baseBranch, currentBranch |-> branchName,
                      claudeBranch |-> branchName]
         IN IF existsResp.ok
            THEN [throws |-> FALSE, gets |-> 1, posts |-> 0, created |-> "",
                  ref |-> "", plan |-> plan]
            ELSE IF createOk
            THEN [throws |-> FALSE, gets |-> 1, posts |-> 1, created |-> branchName,
                  ref |-> baseBranch, plan |-> plan]
            ELSE [throws |-> TRUE, gets |-> 1, posts |-> 1, created |-> "",
                  ref |-> baseBranch, plan |-> NoPlan]
    ELSE [throws |-> FALSE, gets |-> 0, posts |-> 0, created |-> "", ref |-> "",
          plan |-> [baseBranch |-> data.repository.defaultBranch,
                    currentBranch |-> firstSet(context.branch,
                                               data.repository.defaultBranch),
                    claudeBranch |-> ""]]

\* `[View branch](${branchUrl})`
viewBranchLink(branchName) ==
    <<"[", "View branch", "]", "(">> \o branchUrl(branchName) \o <<")">>

\* a cleanup that looks at the commit list only
deleteWhenNoCommits(branchName, baseBranch, compareResp) ==
    IF branchName = "" \/ baseBranch = "" \/ branchName = baseBranch \/ ~compareResp.ok
    THEN [shouldDeleteBranch |-> FALSE, branchLink |-> <<>>,
          compares |-> IF branchName = "" \/ baseBranch = "" \/ branchName = baseBranch
                       THEN 0 ELSE 1,
          deletes |-> 0]
    ELSE IF compareResp.commits = 0
    THEN [shouldDeleteBranch |-> TRUE, branchLink |-> <<>>,
          compares |-> 1, deletes |-> 1]
    ELSE [shouldDeleteBranch |-> FALSE, branchLink |-> viewBranchLink(branchName),
          compares |-> 1, deletes |-> 0]

\* checkAndDeleteEmptyBranch: [shouldDeleteBranch, branchLink, compares, deletes]
\* compareResp answers GET .../repository/compare: [ok, commits, diffs] (lengths)
checkAndDeleteEmptyBranch(branchName, baseBranch, compareResp) ==
    IF branchName = "" \/ baseBranch = ""
    THEN [shouldDeleteBranch |-> FALSE, branchLink |-> <<>>,
          compares |-> 0, deletes |-> 0]
    ELSE IF branchName = baseBranch
    THEN [shouldDeleteBranch |-> FALSE, branchLink |-> <<>>,
          compares |-> 0, deletes |-> 0]
    ELSE IF ~compareResp.ok
    THEN [shouldDeleteBranch |-> FALSE, branchLink |-> <<>>,
          compares |-> 1, deletes |-> 0]
    ELSE IF compareResp.commits = 0 /\ compareResp.diffs = 0
    THEN [shouldDeleteBranch |-> TRUE, branchLink |-> <<>>,
          compares |-> 1, deletes |-> 1]
    ELSE [shouldDeleteBranch |-> FALSE, branchLink |-> viewBranchLink(branchName),
          compares |-> 1, deletes |-> 0]

---------------------------------------------------------------------------
(* Finalize: src/gitlab/operations/comments/update-final.ts                *)

digit(n) == ToString(n % 10)

\* (ms / 1000).toFixed(1), for ms that are not at a rounding tie
toFixed1(ms) ==
    LET tenths == (ms + 50) \div 100
    IN <<ToString(tenths \div 10), ".", digit(tenths)>>

\* cost.toFixed(4), the cost given in 1/100000 USD, not at a rounding tie
toFixed4(cost) ==
    LET t == (cost + 5) \div 10
    IN <<ToString(t \div 10000), ".",
         digit(t \div 1000), digit(t \div 100), digit(t \div 10), digit(t)>>

NoDetails == [present |-> FALSE, cost_usd |-> 0, duration_ms |-> 0,
              duration_api_ms |-> 0]

\* the list `metrics`, each entry a run of tokens
metricsOf(executionDetails) ==
    (IF executionDetails.duration_ms # 0
     THEN <<<<"Duration: ">> \o toFixed1(executionDetails.duration_ms) \o <<"s">>>>
     ELSE <<>>)
    \o (IF executionDetails.duration_api_ms # 0
        THEN <<<<"API: ">> \o toFixed1(executionDetails.duration_api_ms) \o <<"s">>>>
        ELSE <<>>)
    \o (IF executionDetails.cost_usd # 0
        THEN <<<<"Cost: $">> \o toFixed4(executionDetails.cost_usd)>>
        ELSE <<>>)

RECURSIVE joinBullet(_)
\* metrics.join(" * ")
joinBullet(list) ==
    IF list = <<>> THEN <<>>
    ELSE IF Len(list) = 1 THEN list[1]
    ELSE list[1] \o <<Bullet>> \o joinBullet(Tail(list))

\* detailsSection
detailsSection(o) ==
    <<NL, NL, "---", NL, NL, JobLinkOpen, o.jobUrl, ")">>
    \o (IF o.triggerUsername # "" THEN <<TriggeredBy, o.triggerUsername>> ELSE <<>>)
    \o (IF o.executionDetails.present /\ metricsOf(o.executionDetails) # <<>>
        THEN <<Bullet>> \o joinBullet(metricsOf(o.executionDetails))
        ELSE <<>>)

\* updatedBody.replace(/^## Claude is thinking\.\.\.\n\n/, "")
stripThinking(body) ==
    IF Len(body) >= 3 /\ SubSeq(body, 1, 3) = <<ThinkingHeader, NL, NL>>
    THEN SubSeq(body, 4, Len(body))
    ELSE body

withHeader(body, o) ==
    IF o.actionFailed
    THEN <<ErrorHeader, NL, NL>> \o body
    ELSE <<SuccessHeader, NL, NL>> \o body

withErrorDetails(body, o) ==
    IF o.actionFailed /\ o.errorDetails # ""
    THEN body \o <<NL, NL, "### Error Details", NL, CodeFence, NL,
                   o.errorDetails, NL, CodeFence>>
    ELSE body

\* an insertion that appends the text when the body holds no marker
insertOrAppend(body, text) ==
    LET trackerIndex == indexOf(body, <<Marker>>)
    IN IF trackerIndex > -1
       THEN sliceTo(body, trackerIndex) \o text \o sliceFrom(body, trackerIndex)
       ELSE body \o text

\* insertion at the marker: slice(0, trackerIndex) + text + slice(trackerIndex)
insertAtMarker(body, text) ==
    LET trackerIndex == indexOf(body, <<Marker>>)
    IN IF trackerIndex > -1
       THEN sliceTo(body, trackerIndex) \o text \o sliceFrom(body, trackerIndex)
       ELSE body

withBranchInfo(body, o) ==
    IF o.branchLink # <<>> /\ o.branchName # ""
       /\ ~includes(body, <<WorkingOn, " ", "[", o.branchName, "]">>)
    THEN insertAtMarker(body, <<"**", WorkingOn, "**", " ">> \o o.branchLink \o <<NL, NL>>)
    ELSE body

withPrLink(body, o) ==
    IF o.prLink # <<>> /\ ~includes(body, <<"[Create a">>)
    THEN insertAtMarker(body, <<NL>> \o o.prLink \o <<NL, NL>>)
    ELSE body

\* a footer that is appended at the end of the body
appendDetails(body, o) == body \o detailsSection(o)

withDetails(body, o) ==
    IF indexOf(body, <<Marker>>) > -1
    THEN insertAtMarker(body, detailsSection(o) \o <<NL, NL>>)
    ELSE body \o detailsSection(o)

\* the body updateFinalComment PUTs, from the body it read
finalBody(currentBody, o) ==
    withDetails(
        withPrLink(
            withBranchInfo(
                withErrorDetails(
                    withHeader(stripThinking(currentBody), o), o), o), o), o)

\* `[Create a MR](${mrUrl})` (providers/gitlab/adapter.ts)
createMrLink(branchName, baseBranch) ==
    <<"[Create a", " MR", "]", "(", "/-/merge_requests/new?", branchName, baseBranch, ")">>

---------------------------------------------------------------------------
(* Data fetch: src/gitlab/data/fetcher.ts, as far as the pipeline reads it *)

NoData == [mergeRequest |-> [present |-> FALSE, targetBranch |-> "", sourceBranch |-> ""],
           issue |-> [present |-> FALSE],
           repository |-> [defaultBranch |-> ""]]

\* fetchGitLabData: [throws, data]; fetched is what the upstream holds
fetchGitLabData(isMR, allOk, fetched) ==
    IF ~allOk
    THEN [throws |-> TRUE, data |-> NoData]
    ELSE [throws |-> FALSE,
          data |-> [mergeRequest |-> IF isMR
                                     THEN [present |-> TRUE,
                                           targetBranch |-> fetched.targetBranch,
                                           sourceBranch |-> fetched.sourceBranch]
                                     ELSE NoData.mergeRequest,
                    issue |-> [present |-> ~isMR],
                    repository |-> [defaultBranch |-> fetched.defaultBranch]]]

---------------------------------------------------------------------------
(* The environment and the platform                                        *)

PipelineEnvs ==
    [OVERRIDE_GITLAB_TOKEN : {""},
     CI_JOB_TOKEN : {"", "job-token"},
     GITLAB_TOKEN : {"", "glpat"},
     GITLAB_PROJECT_TOKEN : {""},
     CI_PROJECT_PATH : {<<>>, <<"grp", "proj">>},
     CI_PROJECT_ID : {"", "42"},
     CI_MERGE_REQUEST_IID : {"", "5"},
     GITLAB_ISSUE_IID : {"", "7"},
     CI_COMMIT_REF_NAME : {"feature"},
     CI_DEFAULT_BRANCH : {"main"},
     GITLAB_USER_LOGIN : {"", "alice"},
     CI_COMMIT_AUTHOR : {""},
     TRIGGER_USERNAME : {"", "alice"},
     TRIGGER_PHRASE : {<<>>},
     ASSIGNEE_TRIGGER : {<<>>},
     BASE_BRANCH : {"", "develop"},
     DIRECT_PROMPT : {"", "fix the bug"}]

\* what the upstream holds about the repository and the merge request
Upstream == [defaultBranch |-> "main", targetBranch |-> "release",
             sourceBranch |-> "feature"]

BaseBranches == {"main", "develop", "feature", "release"}

\* texts the entity can carry when the pipeline evaluates the trigger
PipelineTexts == {<<>>, <<"c">>, <<"@", "C">>}

NoGate == [done |-> FALSE, result |-> FALSE, log |-> ""]

\* no request has addressed an entity
NoEndpoint == [kind |-> "", iid |-> ""]

\* an endpoint choice that looks at the issue identifier first
entityEndpointIssueFirst(context) ==
    IF context.issueIid # ""
    THEN [kind |-> "issues", iid |-> context.issueIid]
    ELSE IF context.mergeRequestIid # ""
    THEN [kind |-> "merge_requests", iid |-> context.mergeRequestIid]
    ELSE NoEndpoint

\* the entity a request addresses, /merge_requests/:iid or /issues/:iid: the
\* same if / else-if in the trigger checks, createInitialComment and
\* updateFinalComment
entityEndpoint(context) ==
    IF context.mergeRequestIid # ""
    THEN [kind |-> "merge_requests", iid |-> context.mergeRequestIid]
    ELSE IF context.issueIid # ""
    THEN [kind |-> "issues", iid |-> context.issueIid]
    ELSE NoEndpoint

\* what the last updateTrackingComment call did to the comment
NoAnnounce == [done |-> FALSE, ok |-> FALSE, branch |-> "", before |-> <<>>,
               after |-> <<>>]

PrepInit ==
    [pc |-> "token",
     setup |-> FALSE,          \* provider.client / provider.gitlabContext assigned
     token |-> NoGate,
     context |-> NoGate,
     perm |-> NoGate,
     trigger |-> NoGate,
     human |-> NoGate,
     fetch |-> NoGate,
     announce |-> NoAnnounce,
     commentId |-> 0,
     commentOn |-> NoEndpoint, \* the entity the tracking comment was posted on
     data |-> NoData,
     plan |-> NoPlan,
     planned |-> FALSE,
     created |-> {},           \* branches this run created
     gets |-> 0,               \* branch-existence GETs setupBranch issued
     createRef |-> "",         \* the ref of the branch-creation POST
     exitCode |-> -1,          \* -1 while the process runs
     error |-> "",
     failureSignal |-> FALSE]  \* core.setFailed + prepare_error output

FinInit ==
    [pc |-> "idle", exitCode |-> -1, error |-> "", calls |-> 0, failedCalls |-> 0,
     commentId |-> 0, options |-> <<>>, fromHandoff |-> FALSE, cleanup |-> <<>>,
     startBody |-> <<>>, currentBody |-> <<>>, found |-> FALSE, written |-> <<>>,
     read |-> "none",          \* how the GET of the notes ended
     first |-> <<>>,           \* the body an earlier invocation wrote
     again |-> FALSE,          \* this is a second invocation
     reannounced |-> FALSE,    \* the branch was announced once more
     on |-> NoEndpoint,        \* the entity whose notes finalize addressed
     overwritten |-> <<>>,     \* what a progress update wrote after the read
     updates |-> 0]

TrigInit == [done |-> FALSE]

\* no direct call of fetchGitLabData is under way
FetchIdle == [pc |-> "idle"]

\* no direct call of the set-up functions has been made
SetupIdle == [pc |-> "idle"]

Init ==
    /\ env \in PipelineEnvs
    /\ branches \in {BaseBranches, BaseBranches \cup {issueBranchName("7")}}
    /\ notes = <<>>
    /\ prep = PrepInit
    /\ fin = FinInit
    /\ writes = <<>>
    /\ logs = {}
    /\ trig = TrigInit
    /\ fetchRun = FetchIdle
    /\ setupRun = SetupIdle

gitlabContext == parseGitLabContext(env).context

\* the body the platform holds for a note id, empty when there is none
bodyOf(ns, id) == IF id \in DOMAIN ns THEN ns[id] ELSE <<>>

Write(op, target, by, ok) == [op |-> op, target |-> target, by |-> by, ok |-> ok]

---------------------------------------------------------------------------
(* The prepare entrypoint: src/entrypoints/prepare.ts (run)                *)

\* a catch block that exits without reporting
prepExitedSilently(p, message) ==
    [p EXCEPT !.pc = "exited", !.exitCode = 1]

\* the catch block: setFailed, prepare_error output, process.exit(1)
prepFailed(p, message) ==
    [p EXCEPT !.pc = "exited", !.exitCode = 1, !.error = message,
              !.failureSignal = TRUE]

\* Step 1: ProviderFactory.create(), provider.setupToken()
SetupToken ==
    /\ prep.pc = "token"
    /\ LET t == setupGitLabToken(env)
           g == parseGitLabContext(env)
       IN prep' = IF ~t.ok
                  THEN prepFailed([prep EXCEPT !.token = [done |-> TRUE, result |-> FALSE,
                                                          log |-> t.kind]],
                                  "GITLAB_TOKEN environment variable is required")
                  ELSE IF ~g.ok
                  THEN prepFailed([prep EXCEPT !.token = [done |-> TRUE, result |-> FALSE,
                                                          log |-> t.kind]],
                                  g.error)
                  ELSE [prep EXCEPT !.pc = "context", !.setup = TRUE,
                                    !.token = [done |-> TRUE, result |-> TRUE,
                                               log |-> t.kind]]
    /\ UNCHANGED <<env, branches, notes, fin, writes, logs, trig, fetchRun, setupRun>>

\* Step 2: parseGitLabContext(), convertToProviderContext()
ResolveContext ==
    /\ prep.pc = "context"
    /\ LET g == parseGitLabContext(env)
           c == convertToProviderContext(g.context)
       IN prep' = IF ~g.ok
                  THEN prepFailed([prep EXCEPT !.context = [done |-> TRUE,
                                       result |-> FALSE, log |-> g.error]], g.error)
                  ELSE IF ~c.ok
                  THEN prepFailed([prep EXCEPT !.context = [done |-> TRUE,
                                       result |-> FALSE, log |-> c.error]], c.error)
                  ELSE [prep EXCEPT !.pc = "perm",
                                    !.context = [done |-> TRUE, result |-> TRUE,
                                                 log |-> c.context.entityType,
                                                 number |-> c.context.entityNumber]]
    /\ UNCHANGED <<env, branches, notes, fin, writes, logs, trig, fetchRun, setupRun>>

MemberResponses ==
    {[ok |-> FALSE, access_level |-> 0]}
    \cup {[ok |-> TRUE, access_level |-> l] : l \in AccessLevels}

\* Step 3: provider.checkWritePermissions(context)
CheckPermissions ==
    /\ prep.pc = "perm"
    /\ \E memberResp \in MemberResponses :
         LET r == checkWritePermissions(gitlabContext, memberResp, env)
             p == [prep EXCEPT !.perm = [done |-> TRUE, result |-> r.result,
                                         log |-> r.log, fetches |-> r.fetches,
                                         lookupOk |-> memberResp.ok,
                                         level |-> memberResp.access_level]]
         IN /\ prep' = IF r.result
                       THEN [p EXCEPT !.pc = "trigger"]
                       ELSE prepFailed(p,
                              "Actor does not have write permissions to the repository")
            /\ logs' = logs \cup {r.log}
    /\ UNCHANGED <<env, branches, notes, fin, writes, trig, fetchRun, setupRun>>

\* a run that treats a negative trigger as a failure
CheckTriggerFailing ==
    /\ prep.pc = "trigger"
    /\ \E entityOk \in BOOLEAN, notesOk \in BOOLEAN, title \in PipelineTexts :
         LET r == checkTriggerAction(gitlabContext,
                     [ok |-> entityOk, title |-> title, description |-> <<>>,
                      assignee |-> <<>>, assignees |-> {}],
                     [ok |-> notesOk, bodies |-> <<>>])
             p == [prep EXCEPT !.trigger = [done |-> TRUE, result |-> r.result,
                                            log |-> r.why, fetches |-> r.fetches,
                                            on |-> IF r.fetches > 0
                                                   THEN entityEndpoint(gitlabContext)
                                                   ELSE NoEndpoint]]
         IN prep' = IF r.result
                    THEN [p EXCEPT !.pc = "human"]
                    ELSE prepFailed(p, "No trigger found")
    /\ UNCHANGED <<env, branches, notes, fin, writes, logs, trig, fetchRun, setupRun>>

\* Step 4: provider.checkTriggerAction(context); a false result returns from run
CheckTrigger ==
    /\ prep.pc = "trigger"
    /\ \E entityOk \in BOOLEAN, notesOk \in BOOLEAN,
          title \in PipelineTexts, description \in PipelineTexts,
          note \in PipelineTexts :
         LET r == checkTriggerAction(gitlabContext,
                     [ok |-> entityOk, title |-> title, description |-> description,
                      assignee |-> <<>>, assignees |-> {}],
                     [ok |-> notesOk, bodies |-> <<note>>])
             p == [prep EXCEPT !.trigger = [done |-> TRUE, result |-> r.result,
                                            log |-> r.why, fetches |-> r.fetches,
                                            on |-> IF r.fetches > 0
                                                   THEN entityEndpoint(gitlabContext)
                                                   ELSE NoEndpoint]]
         IN prep' = IF r.result
                    THEN [p EXCEPT !.pc = "human"]
                    ELSE [p EXCEPT !.pc = "exited", !.exitCode = 0]
    /\ UNCHANGED <<env, branches, notes, fin, writes, logs, trig, fetchRun, setupRun>>

UserResponses == {[ok |-> FALSE, bot |-> FALSE], [ok |-> TRUE, bot |-> FALSE],
                  [ok |-> TRUE, bot |-> TRUE]}

\* a run that goes on to the comment without the human check
SkipHumanCheck ==
    /\ prep.pc = "human"
    /\ prep' = [prep EXCEPT !.pc = "comment"]
    /\ UNCHANGED <<env, branches, notes, fin, writes, logs, trig, fetchRun, setupRun>>

\* Step 5: provider.checkHumanActor(context)
CheckHuman ==
    /\ prep.pc = "human"
    /\ \E userResp \in UserResponses :
         LET r == checkHumanActor(gitlabContext, userResp)
             p == [prep EXCEPT !.human = [done |-> TRUE, result |-> ~r.throws,
                                          log |-> r.log, fetches |-> r.fetches,
                                          lookupOk |-> userResp.ok,
                                          bot |-> userResp.bot]]
         IN /\ prep' = IF r.throws
                       THEN prepFailed(p, "Only human users can trigger Claude")
                       ELSE [p EXCEPT !.pc = "comment"]
            /\ logs' = logs \cup {r.log}
    /\ UNCHANGED <<env, branches, notes, fin, writes, trig, fetchRun, setupRun>>

\* the id the platform gives the next note
newNoteId == Cardinality(DOMAIN notes) + 1

\* Step 6: provider.createInitialComment(context) (create-initial.ts)
CreateInitialComment ==
    /\ prep.pc = "comment"
    /\ \E ok \in BOOLEAN :
         IF gitlabContext.mergeRequestIid = "" /\ gitlabContext.issueIid = ""
         THEN /\ prep' = prepFailed(prep, "Failed to create initial comment")
              /\ UNCHANGED <<notes, writes>>
         ELSE /\ writes' = Append(writes, Write("createNote", newNoteId, "prepare", ok))
              /\ IF ok
                 THEN /\ notes' = (newNoteId :> initialBody(gitlabContext)) @@ notes
                      /\ prep' = [prep EXCEPT !.pc = "fetch", !.commentId = newNoteId,
                                              !.commentOn =
                                                  entityEndpoint(gitlabContext)]
                 ELSE /\ prep' = prepFailed([prep EXCEPT !.commentOn =
                                                 entityEndpoint(gitlabContext)],
                                            "Failed to create initial comment")
                      /\ UNCHANGED notes
    /\ UNCHANGED <<env, branches, fin, logs, trig, fetchRun, setupRun>>

\* Step 7: provider.fetchData(repository, entityNumber, isIssue)
FetchData ==
    /\ prep.pc = "fetch"
    /\ \E allOk \in BOOLEAN :
         LET c == convertToProviderContext(gitlabContext).context
             r == fetchGitLabData(~(c.entityType = "issue"), allOk, Upstream)
             p == [prep EXCEPT !.fetch = [done |-> TRUE, result |-> ~r.throws,
                                          log |-> "",
                                          isIssue |-> c.entityType = "issue",
                                          number |-> c.entityNumber]]
         IN prep' = IF r.throws
                    THEN prepFailed(p, "GitLab API error")
                    ELSE [p EXCEPT !.pc = "branch", !.data = r.data]
    /\ UNCHANGED <<env, branches, notes, fin, writes, logs, trig, fetchRun, setupRun>>

\* a step 8 that goes on with the intended plan when the creation failed
SetupBranchIgnoringFailure ==
    /\ prep.pc = "branch"
    /\ LET name == issueBranchName(gitlabContext.issueIid)
       IN \E existsOk \in (IF name \in branches THEN BOOLEAN ELSE {FALSE}),
             createOk \in (IF name \in branches THEN {FALSE} ELSE BOOLEAN) :
            LET r == setupBranch(prep.data, gitlabContext, [ok |-> existsOk], createOk)
                intended == [baseBranch |-> r.ref, currentBranch |-> name,
                             claudeBranch |-> name]
            IN /\ prep' = [prep EXCEPT !.pc = "announce",
                                       !.plan = IF r.throws THEN intended ELSE r.plan,
                                       !.planned = TRUE,
                                       !.gets = r.gets, !.createRef = r.ref,
                                       !.created = IF r.created # ""
                                                   THEN @ \cup {r.created} ELSE @]
               /\ writes' = IF r.posts > 0
                            THEN Append(writes, Write("createBranch", name, "prepare",
                                                      createOk))
                            ELSE writes
               /\ branches' = IF r.created # "" THEN branches \cup {r.created}
                              ELSE branches
    /\ UNCHANGED <<env, notes, fin, logs, trig, fetchRun, setupRun>>

\* Step 8: provider.setupBranch(providerData, context) (branch.ts)
SetupBranch ==
    /\ prep.pc = "branch"
    /\ LET name == issueBranchName(gitlabContext.issueIid)
       IN \E existsOk \in (IF name \in branches THEN BOOLEAN ELSE {FALSE}),
             createOk \in (IF name \in branches THEN {FALSE} ELSE BOOLEAN) :
            LET r == setupBranch(prep.data, gitlabContext, [ok |-> existsOk], createOk)
                p == [prep EXCEPT !.gets = r.gets, !.createRef = r.ref]
            IN /\ prep' = IF r.throws
                          THEN prepFailed(p, "Failed to create branch")
                          ELSE [p EXCEPT !.pc = "announce", !.plan = r.plan,
                                         !.planned = TRUE,
                                         !.created = IF r.created # ""
                                                     THEN @ \cup {r.created} ELSE @]
               /\ writes' = IF r.posts > 0
                            THEN Append(writes, Write("createBranch", name, "prepare",
                                                      createOk))
                            ELSE writes
               /\ branches' = IF r.created # "" THEN branches \cup {r.created}
                              ELSE branches
    /\ UNCHANGED <<env, notes, fin, logs, trig, fetchRun, setupRun>>

\* an announcement whose upstream error aborts the run
UpdateTrackingCommentThrowing ==
    /\ prep.pc = "announce"
    /\ prep.plan.claudeBranch # ""
    /\ \E ok \in (IF prep.commentId \in DOMAIN notes THEN BOOLEAN ELSE {FALSE}) :
         /\ writes' = Append(writes, Write("updateNote", prep.commentId,
                                           "prepare", ok))
         /\ notes' = IF ok
                     THEN [notes EXCEPT ![prep.commentId] =
                              announcedBody(gitlabContext, prep.plan.claudeBranch)]
                     ELSE notes
         /\ prep' = LET p == [prep EXCEPT
                                !.announce = [done |-> TRUE, ok |-> ok,
                                              branch |-> prep.plan.claudeBranch,
                                              before |-> bodyOf(notes, prep.commentId),
                                              after |-> bodyOf(notes', prep.commentId)]]
                    IN IF ok THEN [p EXCEPT !.pc = "prompt"]
                       ELSE prepFailed(p, "Error updating comment with branch")
    /\ UNCHANGED <<env, branches, fin, logs, trig, fetchRun, setupRun>>

\* Step 9: provider.updateTrackingComment(context, commentId, claudeBranch)
\* (adapter.ts, update-with-branch.ts): an upstream error is logged, not thrown
UpdateTrackingComment ==
    /\ prep.pc = "announce"
    /\ IF prep.plan.claudeBranch = ""
       THEN /\ prep' = [prep EXCEPT !.pc = "prompt"]
            /\ UNCHANGED <<notes, writes, logs>>
       ELSE \E ok \in (IF prep.commentId \in DOMAIN notes THEN BOOLEAN ELSE {FALSE}) :
              /\ writes' = Append(writes, Write("updateNote", prep.commentId,
                                                "prepare", ok))
              /\ notes' = IF ok
                          THEN [notes EXCEPT ![prep.commentId] =
                                   announcedBody(gitlabContext, prep.plan.claudeBranch)]
                          ELSE notes
              /\ logs' = IF ok THEN logs
                         ELSE logs \cup {"Error updating comment with branch"}
              /\ prep' = [prep EXCEPT
                            !.pc = "prompt",
                            !.announce = [done |-> TRUE, ok |-> ok,
                                          branch |-> prep.plan.claudeBranch,
                                          before |-> bodyOf(notes, prep.commentId),
                                          after |-> bodyOf(notes', prep.commentId)]]
    /\ UNCHANGED <<env, branches, fin, trig, fetchRun, setupRun>>

\* Steps 10-11: createPromptV2, prepareMcpConfig, setOutput; run returns
CreatePrompt ==
    /\ prep.pc = "prompt"
    /\ \E ok \in BOOLEAN :
         prep' = IF ok
                 THEN [prep EXCEPT !.pc = "exited", !.exitCode = 0]
                 ELSE prepFailed(prep, "Create prompt failed")
    /\ UNCHANGED <<env, branches, notes, fin, writes, logs, trig, fetchRun, setupRun>>

Prepare ==
    \/ SetupToken
    \/ ResolveContext
    \/ CheckPermissions
    \/ CheckTrigger
    \/ CheckHuman
    \/ CreateInitialComment
    \/ FetchData
    \/ SetupBranch
    \/ UpdateTrackingComment
    \/ CreatePrompt

---------------------------------------------------------------------------
(* In-flight progress updates: src/mcp/gitlab-file-ops-server.ts           *)

ProgressContents ==
    {<<ThinkingHeader, NL, NL, "- [x] read the code", NL, NL, Marker>>,
     <<"- [x] read the code">>}

\* update_claude_comment: PUT .../notes/:CLAUDE_COMMENT_ID with the new content
ProgressUpdate ==
    /\ prep.pc = "exited" /\ prep.exitCode = 0 /\ prep.commentId # 0
    /\ fin.pc = "idle"
    /\ fin.updates < MaxProgress
    /\ \E content \in ProgressContents,
          ok \in (IF prep.commentId \in DOMAIN notes THEN BOOLEAN ELSE {FALSE}) :
         /\ writes' = Append(writes, Write("updateNote", prep.commentId, "assistant", ok))
         /\ notes' = IF ok THEN [notes EXCEPT ![prep.commentId] = content] ELSE notes
    /\ fin' = [fin EXCEPT !.updates = @ + 1]
    /\ UNCHANGED <<env, branches, prep, logs, trig, fetchRun, setupRun>>

---------------------------------------------------------------------------
(* The finalize entrypoint: src/entrypoints/update-comment-link.ts         *)

\* new GitLabProvider() (factory.ts): client and gitlabContext are assigned
\* by setupToken only
newGitLabProvider == [setup |-> FALSE]

ExecutionResults ==
    {NoDetails,
     [present |-> TRUE, cost_usd |-> 1250, duration_ms |-> 30500,
      duration_api_ms |-> 30000],
     [present |-> TRUE, cost_usd |-> 0, duration_ms |-> 1234,
      duration_api_ms |-> 0]}

\* the CI variables the finalize step is started with
handoffEnv(p, e, claudeSuccess, details) ==
    [CLAUDE_COMMENT_ID |-> IF p.commentId = 0 THEN "" ELSE ToString(p.commentId),
     CLAUDE_BRANCH |-> p.plan.claudeBranch,
     BASE_BRANCH |-> IF p.planned THEN p.plan.baseBranch ELSE e.BASE_BRANCH,
     TRIGGER_USERNAME |-> e.TRIGGER_USERNAME,
     PREPARE_SUCCESS |-> IF p.exitCode = 1 THEN "false" ELSE "true",
     PREPARE_ERROR |-> p.error,
     CLAUDE_SUCCESS |-> IF p.exitCode = 1 THEN "" ELSE claudeSuccess,
     OUTPUT |-> IF p.exitCode = 1 THEN NoDetails ELSE details]

\* a finalize step that reads an id one past the id it was handed
readStaleCommentId(h) == parseInt(h.CLAUDE_COMMENT_ID).val + 1

\* line 9 of run: parseInt(process.env.CLAUDE_COMMENT_ID!); NaN, which names
\* no note, is written 0
readCommentId(h) == parseInt(h.CLAUDE_COMMENT_ID).val

\* lines 9-12 and 49-98 of run: the arguments of provider.updateFinalComment
finalizeOptions(h) ==
    LET prepareSuccess == h.PREPARE_SUCCESS # "false"
        prepareFailed == ~prepareSuccess /\ h.PREPARE_ERROR # ""
    IN [commentId |-> readCommentId(h),
        jobUrl |-> "/-/jobs/1",
        actionFailed |-> IF prepareFailed THEN TRUE ELSE ~(h.CLAUDE_SUCCESS # "false"),
        executionDetails |-> IF prepareFailed THEN NoDetails ELSE h.OUTPUT,
        branchName |-> h.CLAUDE_BRANCH,
        baseBranch |-> firstSet(h.BASE_BRANCH, "main"),
        triggerUsername |-> h.TRIGGER_USERNAME,
        errorDetails |-> IF prepareFailed THEN h.PREPARE_ERROR ELSE ""]

\* run: the provider is created and never set up, so updateFinalComment
\* dereferences this.gitlabContext (undefined) before any upstream call
FinalizeRun ==
    /\ prep.pc = "exited"
    /\ fin.pc = "idle"
    /\ \E claudeSuccess \in {"true", "false"}, details \in ExecutionResults :
         LET provider == newGitLabProvider
             g == parseGitLabContext(env)
             c == convertToProviderContext(g.context)
             o == finalizeOptions(handoffEnv(prep, env, claudeSuccess, details))
             started == [fin EXCEPT !.commentId = o.commentId, !.options = o,
                                    !.fromHandoff = TRUE,
                                    !.startBody = IF o.commentId \in DOMAIN notes
                                                  THEN notes[o.commentId] ELSE <<>>]
         IN fin' = IF ~g.ok \/ ~c.ok
                   THEN [started EXCEPT !.pc = "exited", !.exitCode = 1,
                                        !.error = "context"]
                   ELSE IF ~provider.setup
                   THEN [started EXCEPT !.pc = "exited", !.exitCode = 1,
                                        !.error = "TypeError"]
                   ELSE [started EXCEPT !.pc = "cleanup"]
    /\ UNCHANGED <<env, branches, notes, prep, writes, logs, trig, fetchRun, setupRun>>

Next ==
    \/ Prepare
    \/ ProgressUpdate
    \/ FinalizeRun

Spec == Init /\ [][Next]_vars

---------------------------------------------------------------------------
(* GitLabProvider.updateFinalComment on a provider that has been set up:   *)
(* src/providers/gitlab/adapter.ts, branch-cleanup.ts, update-final.ts     *)

\* branchName / baseBranch as the entrypoint passes them, and the variants a
\* direct caller can pass: no base branch, branch equal to its base
BranchArgs(h) ==
    {<<h.branchName, h.baseBranch>>, <<h.branchName, "">>,
     <<h.baseBranch, h.baseBranch>>}

CompareResponses ==
    {[ok |-> FALSE, commits |-> 0, diffs |-> 0]}
    \cup {[ok |-> TRUE, commits |-> c, diffs |-> d] : c \in 0..1, d \in 0..1}

\* the call provider.updateFinalComment(context, commentId, options), its
\* options either those the entrypoint computes or given by the caller
ProviderFinalizeCall ==
    /\ prep.pc = "exited" /\ prep.setup /\ prep.commentId # 0
    /\ fin.pc = "idle"
    /\ \E claudeSuccess \in {"true", "false"}, details \in ExecutionResults :
         LET h == finalizeOptions(handoffEnv(prep, env, claudeSuccess, details))
         IN \E args \in BranchArgs(h) :
              fin' = [fin EXCEPT
                        !.pc = "cleanup",
                        !.commentId = h.commentId,
                        !.options = [h EXCEPT !.branchName = args[1],
                                              !.baseBranch = args[2]],
                        !.fromHandoff = (args = <<h.branchName, h.baseBranch>>),
                        !.startBody = IF h.commentId \in DOMAIN notes
                                      THEN notes[h.commentId] ELSE <<>>]
    /\ UNCHANGED <<env, branches, notes, prep, writes, logs, trig, fetchRun, setupRun>>

\* a cleanup that reports shouldDelete only when the DELETE went through
ProviderCleanupStrict ==
    /\ fin.pc = "cleanup"
    /\ \E compareResp \in CompareResponses,
          deleteOk \in (IF fin.options.branchName \in branches
                        THEN BOOLEAN ELSE {FALSE}) :
         LET r == checkAndDeleteEmptyBranch(fin.options.branchName,
                                            fin.options.baseBranch, compareResp)
         IN /\ fin' = [fin EXCEPT !.pc = "read",
                                  !.calls = @ + r.compares + r.deletes,
                                  !.cleanup = [shouldDeleteBranch |->
                                                   r.shouldDeleteBranch /\ deleteOk,
                                               branchLink |-> r.branchLink,
                                               compares |-> r.compares,
                                               deletes |-> r.deletes,
                                               compareResp |-> compareResp]]
            /\ writes' = IF r.deletes > 0
                         THEN Append(writes, Write("deleteBranch",
                                        fin.options.branchName, "finalize", deleteOk))
                         ELSE writes
            /\ branches' = IF r.deletes > 0 /\ deleteOk
                           THEN branches \ {fin.options.branchName}
                           ELSE branches
            /\ logs' = logs
    /\ UNCHANGED <<env, notes, prep, trig, fetchRun, setupRun>>

\* adapter.ts 105-111: checkAndDeleteEmptyBranch, with its DELETE
ProviderCleanup ==
    /\ fin.pc = "cleanup"
    /\ \E compareResp \in CompareResponses,
          deleteOk \in (IF fin.options.branchName \in branches
                        THEN BOOLEAN ELSE {FALSE}) :
         LET r == checkAndDeleteEmptyBranch(fin.options.branchName,
                                            fin.options.baseBranch, compareResp)
         IN /\ fin' = [fin EXCEPT !.pc = "read",
                                  !.calls = @ + r.compares + r.deletes,
                                  !.cleanup = [shouldDeleteBranch |-> r.shouldDeleteBranch,
                                               branchLink |-> r.branchLink,
                                               compares |-> r.compares,
                                               deletes |-> r.deletes,
                                               compareResp |-> compareResp]]
            /\ writes' = IF r.deletes > 0
                         THEN Append(writes, Write("deleteBranch",
                                        fin.options.branchName, "finalize", deleteOk))
                         ELSE writes
            /\ branches' = IF r.deletes > 0 /\ deleteOk
                           THEN branches \ {fin.options.branchName}
                           ELSE branches
            /\ logs' = IF r.deletes > 0 /\ ~deleteOk
                       THEN logs \cup {"Failed to delete branch"}
                       ELSE logs
    /\ UNCHANGED <<env, notes, prep, trig, fetchRun, setupRun>>

\* arguments that carry the links whatever the cleanup decided
finalCommentArgsKeepingLinks(o, cleanup) ==
    [actionFailed |-> o.actionFailed,
     errorDetails |-> o.errorDetails,
     jobUrl |-> o.jobUrl,
     triggerUsername |-> o.triggerUsername,
     executionDetails |-> o.executionDetails,
     branchLink |-> IF o.branchName # "" THEN viewBranchLink(o.branchName) ELSE <<>>,
     prLink |-> IF o.branchName # "" /\ o.baseBranch # ""
                THEN createMrLink(o.branchName, o.baseBranch)
                ELSE <<>>,
     branchName |-> o.branchName]

\* adapter.ts 113-143: the arguments handed to updateFinalComment
finalCommentArgs(o, cleanup) ==
    [actionFailed |-> o.actionFailed,
     errorDetails |-> o.errorDetails,
     jobUrl |-> o.jobUrl,
     triggerUsername |-> o.triggerUsername,
     executionDetails |-> o.executionDetails,
     branchLink |-> IF cleanup.shouldDeleteBranch THEN <<>> ELSE cleanup.branchLink,
     prLink |-> IF o.branchName # "" /\ ~cleanup.shouldDeleteBranch
                   /\ o.baseBranch # ""
                THEN createMrLink(o.branchName, o.baseBranch)
                ELSE <<>>,
     branchName |-> IF cleanup.shouldDeleteBranch THEN "" ELSE o.branchName]

\* a read that goes on with an empty body when the GET fails
ProviderFinalReadSwallowing ==
    /\ fin.pc = "read"
    /\ \E ok \in BOOLEAN :
         fin' = [fin EXCEPT !.pc = "write", !.calls = @ + 1,
                            !.read = IF ok THEN "ok" ELSE "failed",
                            !.on = entityEndpoint(gitlabContext),
                            !.failedCalls = IF ok THEN @ ELSE @ + 1,
                            !.found = ok /\ fin.commentId \in DOMAIN notes,
                            !.currentBody = IF ok THEN bodyOf(notes, fin.commentId)
                                            ELSE <<>>]
    /\ UNCHANGED <<env, branches, notes, prep, writes, logs, trig, fetchRun, setupRun>>

\* update-final.ts 41-60: GET the notes and find the comment by id
ProviderFinalRead ==
    /\ fin.pc = "read"
    /\ \E ok \in BOOLEAN :
         fin' = IF ok
                THEN [fin EXCEPT !.pc = "write", !.calls = @ + 1, !.read = "ok",
                                 !.on = entityEndpoint(gitlabContext),
                                 !.found = fin.commentId \in DOMAIN notes,
                                 !.currentBody = IF fin.commentId \in DOMAIN notes
                                                 THEN notes[fin.commentId] ELSE <<>>]
                ELSE [fin EXCEPT !.pc = "exited", !.exitCode = 1, !.calls = @ + 1,
                                 !.read = "failed",
                                 !.on = entityEndpoint(gitlabContext),
                                 !.failedCalls = @ + 1, !.error = "GitLab API error"]
    /\ UNCHANGED <<env, branches, notes, prep, writes, logs, trig, fetchRun, setupRun>>

\* a write that builds the body from what the comment holds at the time of
\* the PUT
ProviderFinalWriteRereading ==
    /\ fin.pc = "write"
    /\ \E ok \in (IF fin.commentId \in DOMAIN notes THEN BOOLEAN ELSE {FALSE}) :
         LET body == finalBody(bodyOf(notes, fin.commentId),
                               finalCommentArgs(fin.options, fin.cleanup))
         IN /\ writes' = Append(writes, Write("updateNote", fin.commentId,
                                              "finalize", ok))
            /\ notes' = IF ok THEN [notes EXCEPT ![fin.commentId] = body] ELSE notes
            /\ fin' = IF ok
                      THEN [fin EXCEPT !.pc = "exited", !.exitCode = 0, !.calls = @ + 1,
                                       !.written = body]
                      ELSE [fin EXCEPT !.pc = "exited", !.exitCode = 1, !.calls = @ + 1,
                                       !.failedCalls = @ + 1,
                                       !.error = "GitLab API error"]
    /\ UNCHANGED <<env, branches, prep, logs, trig, fetchRun, setupRun>>

\* update-final.ts 62-170: build the body and PUT it
ProviderFinalWrite ==
    /\ fin.pc = "write"
    /\ \E ok \in (IF fin.commentId \in DOMAIN notes THEN BOOLEAN ELSE {FALSE}) :
         LET body == finalBody(fin.currentBody,
                               finalCommentArgs(fin.options, fin.cleanup))
         IN /\ writes' = Append(writes, Write("updateNote", fin.commentId,
                                              "finalize", ok))
            /\ notes' = IF ok THEN [notes EXCEPT ![fin.commentId] = body] ELSE notes
            /\ fin' = IF ok
                      THEN [fin EXCEPT !.pc = "exited", !.exitCode = 0, !.calls = @ + 1,
                                       !.written = body]
                      ELSE [fin EXCEPT !.pc = "exited", !.exitCode = 1, !.calls = @ + 1,
                                       !.failedCalls = @ + 1,
                                       !.error = "GitLab API error"]
    /\ UNCHANGED <<env, branches, prep, logs, trig, fetchRun, setupRun>>

ProviderEnvs ==
    {e \in PipelineEnvs :
        /\ e.GITLAB_TOKEN # ""
        /\ e.CI_PROJECT_PATH # <<>>
        /\ e.CI_PROJECT_ID # ""
        /\ e.GITLAB_USER_LOGIN # ""
        /\ e.CI_JOB_TOKEN = ""
        /\ e.TRIGGER_USERNAME # ""
        /\ e.DIRECT_PROMPT = ""}

InitProvider == Init /\ env \in ProviderEnvs

NextProvider ==
    \/ Prepare
    \/ ProgressUpdate
    \/ ProviderFinalizeCall
    \/ ProviderCleanup
    \/ ProviderFinalRead
    \/ ProviderFinalWrite

SpecProvider == InitProvider /\ [][NextProvider]_vars

---------------------------------------------------------------------------
(* The trigger evaluator on its own: provider.checkTriggerAction(context)  *)
(* over every phrase and every text of the bounded alphabet                *)

\* an assignee trigger is configured only next to an unset or default phrase
TriggerEnvs ==
  {e \in
    [OVERRIDE_GITLAB_TOKEN : {""},
     CI_JOB_TOKEN : {""},
     GITLAB_TOKEN : {"glpat"},
     GITLAB_PROJECT_TOKEN : {""},
     CI_PROJECT_PATH : {<<"grp", "proj">>},
     CI_PROJECT_ID : {"42"},
     CI_MERGE_REQUEST_IID : {"", "5"},
     GITLAB_ISSUE_IID : {"", "7"},
     CI_COMMIT_REF_NAME : {"feature"},
     CI_DEFAULT_BRANCH : {"main"},
     GITLAB_USER_LOGIN : {"alice"},
     CI_COMMIT_AUTHOR : {""},
     TRIGGER_USERNAME : {""},
     TRIGGER_PHRASE : Phrases,
     ASSIGNEE_TRIGGER : {<<>>, <<"@", "c">>},
     BASE_BRANCH : {""},
     DIRECT_PROMPT : {"", "fix the bug"}] :
    e.ASSIGNEE_TRIGGER = <<>> \/ e.TRIGGER_PHRASE \in {<<>>, DefaultTriggerPhrase}}

InitTrigger ==
    /\ env \in TriggerEnvs
    /\ branches = BaseBranches
    /\ notes = <<>>
    /\ prep = PrepInit
    /\ fin = FinInit
    /\ writes = <<>>
    /\ logs = {}
    /\ trig = TrigInit
    /\ fetchRun = FetchIdle
    /\ setupRun = SetupIdle

Slots == {"title", "description", "note"}

\* one evaluation: the text T sits in one slot of what upstream returns, the
\* other slots carry a filler text
Evaluate ==
    /\ ~trig.done
    /\ \E T \in Texts, slot \in Slots, other \in {<<>>, <<"c">>},
          entityOk \in BOOLEAN, notesOk \in BOOLEAN,
          assigned \in (IF env.ASSIGNEE_TRIGGER = <<>> THEN {FALSE} ELSE BOOLEAN) :
         LET context == gitlabContext
             entityResp == [ok |-> entityOk,
                            title |-> IF slot = "title" THEN T ELSE other,
                            description |-> IF slot = "description" THEN T ELSE other,
                            assignee |-> IF assigned THEN <<"c">> ELSE <<>>,
                            assignees |-> IF assigned THEN {<<"c">>} ELSE {}]
             notesResp == [ok |-> notesOk,
                           bodies |-> IF slot = "note" THEN <<other, T>>
                                      ELSE <<other>>]
             r == checkTriggerAction(context, entityResp, notesResp)
         IN trig' = [done |-> TRUE, context |-> context, T |-> T, slot |-> slot,
                     other |-> other, entityOk |-> entityOk, notesOk |-> notesOk,
                     result |-> r.result, fetches |-> r.fetches, why |-> r.why,
                     throws |-> r.throws, assigned |-> assigned]
    /\ UNCHANGED <<env, branches, notes, prep, fin, writes, logs, fetchRun, setupRun>>

NextTrigger == Evaluate

SpecTrigger == InitTrigger /\ [][NextTrigger]_vars

---------------------------------------------------------------------------
(* The life of the tracking comment: repeated announcements, a comment     *)
(* deleted by a user, a second finalize invocation                         *)

\* provider.updateTrackingComment(context, commentId, branchName) called again
\* on the comment as it stands (adapter.ts 48-61, update-with-branch.ts)
ProviderAnnounce ==
    /\ prep.pc = "exited" /\ prep.exitCode = 0 /\ prep.commentId # 0
    /\ prep.plan.claudeBranch # ""
    /\ fin.pc = "idle"
    /\ ~fin.reannounced
    /\ \E ok \in (IF prep.commentId \in DOMAIN notes THEN BOOLEAN ELSE {FALSE}) :
         /\ writes' = Append(writes, Write("updateNote", prep.commentId,
                                           "announce", ok))
         /\ notes' = IF ok
                     THEN [notes EXCEPT ![prep.commentId] =
                              announcedBody(gitlabContext, prep.plan.claudeBranch)]
                     ELSE notes
         /\ logs' = IF ok THEN logs
                    ELSE logs \cup {"Error updating comment with branch"}
         /\ prep' = [prep EXCEPT
                       !.announce = [done |-> TRUE, ok |-> ok,
                                     branch |-> prep.plan.claudeBranch,
                                     before |-> bodyOf(notes, prep.commentId),
                                     after |-> bodyOf(notes', prep.commentId)]]
    /\ fin' = [fin EXCEPT !.reannounced = TRUE]
    /\ UNCHANGED <<env, branches, trig, fetchRun, setupRun>>

\* a user deletes the tracking comment on the platform
UserDeletesComment ==
    /\ prep.pc = "exited" /\ prep.commentId \in DOMAIN notes
    /\ fin.pc = "idle"
    /\ notes' = [id \in DOMAIN notes \ {prep.commentId} |-> notes[id]]
    /\ UNCHANGED <<env, branches, prep, fin, writes, logs, trig, fetchRun, setupRun>>

\* the finalize step run a second time with the same options
ProviderFinalizeAgain ==
    /\ fin.pc = "exited" /\ fin.exitCode = 0
    /\ ~fin.again
    /\ fin' = [fin EXCEPT !.pc = "cleanup", !.exitCode = -1, !.again = TRUE,
                          !.first = fin.written, !.written = <<>>,
                          !.read = "none", !.cleanup = <<>>]
    /\ UNCHANGED <<env, branches, notes, prep, writes, logs, trig, fetchRun, setupRun>>

CommentEnvs ==
    {e \in ProviderEnvs :
        /\ e.BASE_BRANCH = ""
        /\ (e.CI_MERGE_REQUEST_IID = "") # (e.GITLAB_ISSUE_IID = "")}

InitComment ==
    /\ Init
    /\ env \in CommentEnvs
    /\ branches = BaseBranches

NextComment ==
    \/ Prepare
    \/ ProgressUpdate
    \/ ProviderAnnounce
    \/ UserDeletesComment
    \/ ProviderFinalizeCall
    \/ ProviderCleanup
    \/ ProviderFinalRead
    \/ ProviderFinalWrite
    \/ ProviderFinalizeAgain

SpecComment == InitComment /\ [][NextComment]_vars

---------------------------------------------------------------------------
(* fetchGitLabData request by request. The repository holds two copies:    *)
(* src/gitlab/data/fetcher.ts awaits its requests one after the other,     *)
(* the copy in part_007 issues them together and waits until all settled   *)

Fetchers == {"fetcher.ts", "part_007"}

\* String.prototype.startsWith
startsWith(s, p) == Len(s) >= Len(p) /\ SubSeq(s, 1, Len(p)) = p

\* String.prototype.split("\n")
RECURSIVE split(_)
split(text) ==
    IF ~includes(text, <<NL>>)
    THEN <<text>>
    ELSE LET k == indexOf(text, <<NL>>)
         IN <<sliceTo(text, k)>> \o split(sliceFrom(text, k + 1))

\* countAdditions / countDeletions of fetcher.ts
countAdditions(diff) ==
    IF diff = <<>> THEN 0
    ELSE LET lines == split(diff)
         IN Cardinality({i \in 1..Len(lines) : startsWith(lines[i], <<"+">>)})

countDeletions(diff) ==
    IF diff = <<>> THEN 0
    ELSE LET lines == split(diff)
         IN Cardinality({i \in 1..Len(lines) : startsWith(lines[i], <<"-">>)})

\* countAdditions / countDeletions of the copy in part_007
countAdditionsSettled(diff) ==
    IF diff = <<>> THEN 0
    ELSE LET lines == split(diff)
         IN Cardinality({i \in 1..Len(lines) :
                            /\ startsWith(lines[i], <<"+">>)
                            /\ ~startsWith(lines[i], <<"+", "+", "+">>)})

countDeletionsSettled(diff) ==
    IF diff = <<>> THEN 0
    ELSE LET lines == split(diff)
         IN Cardinality({i \in 1..Len(lines) :
                            /\ startsWith(lines[i], <<"-">>)
                            /\ ~startsWith(lines[i], <<"-", "-", "-">>)})

additionsOf(copy, diff) ==
    IF copy = "fetcher.ts" THEN countAdditions(diff) ELSE countAdditionsSettled(diff)

deletionsOf(copy, diff) ==
    IF copy = "fetcher.ts" THEN countDeletions(diff) ELSE countDeletionsSettled(diff)

\* the lines a diff text is made of: empty, header pair, added, removed,
\* context, and an added line whose content starts with "+"
DiffLines ==
    {<<>>, <<"+", "+", "+", "x">>, <<"-", "-", "-", "x">>, <<"+", "x">>,
     <<"-", "x">>, <<"x">>, <<"+", "+">>}

RECURSIVE joinLines(_)
joinLines(lines) ==
    IF lines = <<>> THEN <<>>
    ELSE IF Len(lines) = 1 THEN lines[1]
    ELSE lines[1] \o <<NL>> \o joinLines(Tail(lines))

\* what the upstream answers when a request is fulfilled
HeaderDiff ==
    joinLines(<<<<"-", "-", "-", "x">>, <<"+", "+", "+", "x">>, <<"-", "x">>,
                <<"+", "x">>>>)

FetchedNotes ==
    <<[id |-> 1, system |-> FALSE], [id |-> 2, system |-> TRUE],
      [id |-> 3, system |-> FALSE]>>

FetchedCommits == <<[id |-> "commit1"]>>

FetchedDiffs == <<[new_path |-> "f", diff |-> HeaderDiff]>>

fetchedValue(r) ==
    CASE r = "notes" -> FetchedNotes
      [] r = "commits" -> FetchedCommits
      [] r = "diffs" -> FetchedDiffs
      [] OTHER -> <<>>

\* the requests of fetchMergeRequestData / fetchIssueData, in source order
requestsOf(isMR) ==
    IF isMR THEN <<"entity", "notes", "commits", "diffs">> ELSE <<"entity", "notes">>

AllRequests == {"entity", "notes", "commits", "diffs"}

\* handleOptionalData (part_007): the value of a fulfilled request, the
\* fallback [] of a rejected one
handleOptionalData(status, value) == IF status = "fulfilled" THEN value ELSE <<>>

\* notes.filter(note => !note.system).map(note => ({id: note.id.toString(), ...}))
commentsOf(fetchedNotes) ==
    LET kept == SelectSeq(fetchedNotes, LAMBDA note : ~note.system)
    IN [i \in 1..Len(kept) |-> [id |-> ToString(kept[i].id)]]

commitsOf(fetchedCommits) ==
    [i \in 1..Len(fetchedCommits) |-> [sha |-> fetchedCommits[i].id]]

filesOf(copy, diffs) ==
    [i \in 1..Len(diffs) |-> [path |-> diffs[i].new_path,
                              additions |-> additionsOf(copy, diffs[i].diff),
                              deletions |-> deletionsOf(copy, diffs[i].diff)]]

RECURSIVE sumAdditions(_, _)
sumAdditions(copy, diffs) ==
    IF diffs = <<>> THEN 0
    ELSE additionsOf(copy, Head(diffs).diff) + sumAdditions(copy, Tail(diffs))

RECURSIVE sumDeletions(_, _)
sumDeletions(copy, diffs) ==
    IF diffs = <<>> THEN 0
    ELSE deletionsOf(copy, Head(diffs).diff) + sumDeletions(copy, Tail(diffs))

NoFetchResult ==
    [issue |-> [present |-> FALSE, comments |-> <<>>],
     mergeRequest |-> [present |-> FALSE, comments |-> <<>>, commits |-> <<>>,
                       files |-> <<>>, additions |-> 0, deletions |-> 0],
     repository |-> [defaultBranch |-> ""]]

\* the ProviderData fetchGitLabData returns from the lists it ended with
fetchResult(copy, isMR, noteList, commitList, diffList) ==
    IF isMR
    THEN [NoFetchResult EXCEPT
            !.mergeRequest = [present |-> TRUE,
                              comments |-> commentsOf(noteList),
                              commits |-> commitsOf(commitList),
                              files |-> filesOf(copy, diffList),
                              additions |-> sumAdditions(copy, diffList),
                              deletions |-> sumDeletions(copy, diffList)],
            !.repository = [defaultBranch |-> Upstream.defaultBranch]]
    ELSE [NoFetchResult EXCEPT
            !.issue = [present |-> TRUE, comments |-> commentsOf(noteList)],
            !.repository = [defaultBranch |-> Upstream.defaultBranch]]

FetchStart(copy, isMR) ==
    [pc |-> "project", copy |-> copy, isMR |-> isMR,
     status |-> [r \in AllRequests |-> "unsent"],
     order |-> <<>>,           \* the requests in the order they settled
     error |-> "", result |-> NoFetchResult,
     lines |-> <<>>, additions |-> 0, deletions |-> 0]

\* GET /projects/:path, awaited first by both copies
FetchProject ==
    /\ fetchRun.pc = "project"
    /\ \E ok \in BOOLEAN :
         fetchRun' = IF ~ok
                     THEN [fetchRun EXCEPT !.pc = "threw", !.error = "project"]
                     ELSE [fetchRun EXCEPT
                             !.pc = "requests",
                             !.status = IF fetchRun.copy = "part_007"
                                        THEN [r \in AllRequests |->
                                                IF \E i \in 1..Len(requestsOf(fetchRun.isMR)) :
                                                      requestsOf(fetchRun.isMR)[i] = r
                                                THEN "pending" ELSE "unsent"]
                                        ELSE @]
    /\ UNCHANGED <<env, branches, notes, prep, fin, writes, logs, trig, setupRun>>

\* fetcher.ts: the next request in source order is awaited; a rejection
\* leaves the function at once
SettleInTurn ==
    /\ fetchRun.pc = "requests" /\ fetchRun.copy = "fetcher.ts"
    /\ LET reqs == requestsOf(fetchRun.isMR)
           k == Len(fetchRun.order) + 1
           r == reqs[k]
       IN \E ok \in BOOLEAN :
            LET st == [fetchRun.status EXCEPT ![r] = IF ok THEN "fulfilled"
                                                     ELSE "rejected"]
                run == [fetchRun EXCEPT !.status = st, !.order = Append(@, r)]
            IN fetchRun' =
                 IF ~ok THEN [run EXCEPT !.pc = "threw", !.error = r]
                 ELSE IF k < Len(reqs) THEN run
                 ELSE [run EXCEPT
                         !.pc = "returned",
                         !.result = fetchResult(run.copy, run.isMR, FetchedNotes,
                                                FetchedCommits, FetchedDiffs)]
    /\ UNCHANGED <<env, branches, notes, prep, fin, writes, logs, trig, setupRun>>

\* part_007: any of the requests issued together settles
SettleAny ==
    /\ fetchRun.pc = "requests" /\ fetchRun.copy = "part_007"
    /\ \E r \in {q \in AllRequests : fetchRun.status[q] = "pending"}, ok \in BOOLEAN :
         fetchRun' = [fetchRun EXCEPT
                        !.status[r] = IF ok THEN "fulfilled" ELSE "rejected",
                        !.order = Append(@, r)]
    /\ UNCHANGED <<env, branches, notes, prep, fin, writes, logs, trig, setupRun>>

\* a copy that answers with an empty result when the primary entity is missing
AggregateWithoutEntity ==
    /\ fetchRun.pc = "requests" /\ fetchRun.copy = "part_007"
    /\ \A q \in AllRequests : fetchRun.status[q] # "pending"
    /\ fetchRun' =
         IF fetchRun.status["entity"] = "rejected"
         THEN [fetchRun EXCEPT !.pc = "returned"]
         ELSE [fetchRun EXCEPT
                 !.pc = "returned",
                 !.result = fetchResult(fetchRun.copy, fetchRun.isMR,
                               handleOptionalData(fetchRun.status["notes"], FetchedNotes),
                               handleOptionalData(fetchRun.status["commits"], FetchedCommits),
                               handleOptionalData(fetchRun.status["diffs"], FetchedDiffs))]
    /\ UNCHANGED <<env, branches, notes, prep, fin, writes, logs, trig, setupRun>>

\* part_007: Promise.allSettled has resolved; the entity is required, the
\* other lists fall back to []
Aggregate ==
    /\ fetchRun.pc = "requests" /\ fetchRun.copy = "part_007"
    /\ \A q \in AllRequests : fetchRun.status[q] # "pending"
    /\ fetchRun' =
         IF fetchRun.status["entity"] = "rejected"
         THEN [fetchRun EXCEPT !.pc = "threw", !.error = "entity"]
         ELSE [fetchRun EXCEPT
                 !.pc = "returned",
                 !.result = fetchResult(fetchRun.copy, fetchRun.isMR,
                               handleOptionalData(fetchRun.status["notes"], FetchedNotes),
                               handleOptionalData(fetchRun.status["commits"], FetchedCommits),
                               handleOptionalData(fetchRun.status["diffs"], FetchedDiffs))]
    /\ UNCHANGED <<env, branches, notes, prep, fin, writes, logs, trig, setupRun>>

\* countAdditions / countDeletions applied to one diff text
CountDiff ==
    /\ fetchRun.pc = "project"
    /\ \E lines \in SeqsUpTo(DiffLines, MaxDiffLines) :
         fetchRun' = [fetchRun EXCEPT
                        !.pc = "counted", !.lines = lines,
                        !.additions = additionsOf(fetchRun.copy, joinLines(lines)),
                        !.deletions = deletionsOf(fetchRun.copy, joinLines(lines))]
    /\ UNCHANGED <<env, branches, notes, prep, fin, writes, logs, trig, setupRun>>

InitFetch ==
    /\ env \in CommentEnvs
    /\ branches = BaseBranches
    /\ notes = <<>>
    /\ prep = PrepInit
    /\ fin = FinInit
    /\ writes = <<>>
    /\ logs = {}
    /\ trig = TrigInit
    /\ \E copy \in Fetchers :
         fetchRun = FetchStart(copy,
                       convertToProviderContext(gitlabContext).context.entityType
                           # "issue")
    /\ setupRun = SetupIdle

NextFetch ==
    \/ FetchProject
    \/ SettleInTurn
    \/ SettleAny
    \/ Aggregate
    \/ CountDiff

SpecFetch == InitFetch /\ [][NextFetch]_vars

---------------------------------------------------------------------------
(* A progress update still in flight when finalize runs: the assistant's   *)
(* update_claude_comment PUT lands between updateFinalComment's GET of the *)
(* notes and its PUT. Neither request carries a version of the body.       *)

LateProgressUpdate ==
    /\ fin.pc = "write"
    /\ fin.overwritten = <<>>
    /\ fin.commentId \in DOMAIN notes
    /\ \E content \in ProgressContents :
         /\ writes' = Append(writes, Write("updateNote", fin.commentId,
                                           "assistant", TRUE))
         /\ notes' = [notes EXCEPT ![fin.commentId] = content]
         /\ fin' = [fin EXCEPT !.overwritten = content]
    /\ UNCHANGED <<env, branches, prep, logs, trig, fetchRun, setupRun>>

InitRace ==
    /\ Init
    /\ env \in CommentEnvs
    /\ branches = BaseBranches

NextRace ==
    \/ Prepare
    \/ ProviderFinalizeCall
    \/ ProviderCleanup
    \/ ProviderFinalRead
    \/ LateProgressUpdate
    \/ ProviderFinalWrite

SpecRace == InitRace /\ [][NextRace]_vars

---------------------------------------------------------------------------
(* The set-up functions, called directly. The repository holds two copies  *)
(* of the token module and two of the context module: src/gitlab/token.ts  *)
(* and src/gitlab/context.ts, and the copies in part_005 and part_008.     *)

TokenCopies == {"token.ts", "part_005"}

Resolvers == {"context.ts", "part_008"}

\* the environment variables each copy's error message names when no
\* credential is found
tokenErrorNames(copy) ==
    IF copy = "token.ts"
    THEN {"GITLAB_TOKEN"}
    ELSE {"CI_JOB_TOKEN", "GITLAB_TOKEN", "GITLAB_PROJECT_TOKEN",
          "OVERRIDE_GITLAB_TOKEN"}

\* getGitLabTokenInfo (part_005): [ok, token, type]
getGitLabTokenInfo(e) ==
    IF e.OVERRIDE_GITLAB_TOKEN # ""
    THEN [ok |-> TRUE, token |-> e.OVERRIDE_GITLAB_TOKEN, type |-> "override"]
    ELSE IF e.CI_JOB_TOKEN # ""
    THEN [ok |-> TRUE, token |-> e.CI_JOB_TOKEN, type |-> "job"]
    ELSE IF e.GITLAB_TOKEN # ""
    THEN [ok |-> TRUE, token |-> e.GITLAB_TOKEN, type |-> "personal"]
    ELSE IF e.GITLAB_PROJECT_TOKEN # ""
    THEN [ok |-> TRUE, token |-> e.GITLAB_PROJECT_TOKEN, type |-> "project"]
    ELSE [ok |-> FALSE, token |-> "", type |-> "none"]

\* setupGitLabToken of either copy: [ok, token, names]
selectToken(copy, e) ==
    LET fromBasic == setupGitLabToken(e)
        fromInfo == getGitLabTokenInfo(e)
        ok == IF copy = "token.ts" THEN fromBasic.ok ELSE fromInfo.ok
    IN  [ok |-> ok,
         token |-> IF copy = "token.ts" THEN fromBasic.token ELSE fromInfo.token,
         names |-> IF ok THEN {} ELSE tokenErrorNames(copy)]

\* getHeaders of createGitLabClient(token): the authentication header of
\* every request the client sends
getHeaders(token, e) ==
    LET tokenInfo == IF token # ""
                     THEN [ok |-> TRUE, token |-> token, type |-> "personal"]
                     ELSE getGitLabTokenInfo(e)
    IN  IF ~tokenInfo.ok
        THEN [ok |-> FALSE, header |-> "", value |-> ""]
        ELSE IF tokenInfo.type = "job"
        THEN [ok |-> TRUE, header |-> "JOB-TOKEN", value |-> tokenInfo.token]
        ELSE [ok |-> TRUE, header |-> "PRIVATE-TOKEN", value |-> tokenInfo.token]

\* parseGitLabContext of part_008: every absent variable gets a default
parseGitLabContextDefaulting(e) ==
    [projectPath |-> e.CI_PROJECT_PATH,
     projectId |-> e.CI_PROJECT_ID,
     mergeRequestIid |-> e.CI_MERGE_REQUEST_IID,
     issueIid |-> e.GITLAB_ISSUE_IID,
     branch |-> e.CI_COMMIT_REF_NAME,
     defaultBranch |-> firstSet(e.CI_DEFAULT_BRANCH, "main"),
     triggerUser |-> firstSet(e.GITLAB_USER_LOGIN, e.CI_COMMIT_AUTHOR),
     inputs |-> [triggerPhrase |-> IF e.TRIGGER_PHRASE # <<>>
                                   THEN e.TRIGGER_PHRASE
                                   ELSE DefaultTriggerPhrase,
                 assigneeTrigger |-> e.ASSIGNEE_TRIGGER,
                 baseBranch |-> e.BASE_BRANCH,
                 directPrompt |-> e.DIRECT_PROMPT]]

\* convertToProviderContext of part_008: parseInt of the identifier, "0"
\* when there is none; never throws
convertToProviderContextDefaulting(g) ==
    LET parsed == parseInt(firstSet(g.mergeRequestIid, firstSet(g.issueIid, "0")))
    IN  [provider |-> "gitlab",
         owner |-> IF Len(g.projectPath) >= 1 THEN g.projectPath[1] ELSE "",
         name |-> IF Len(g.projectPath) >= 2 THEN g.projectPath[2] ELSE "",
         entityType |-> IF g.mergeRequestIid # "" THEN "merge_request" ELSE "issue",
         entityNumber |-> parsed.val,
         entityNumberIsNaN |-> parsed.nan,
         actor |-> g.triggerUser]

\* parseGitLabContext then convertToProviderContext, as the entrypoints call
\* them: [ok, error, gitlabContext, context]
resolveContext(copy, e) ==
    LET g == parseGitLabContext(e)
        c == convertToProviderContext(g.context)
        d == parseGitLabContextDefaulting(e)
    IN  IF copy = "part_008"
        THEN [ok |-> TRUE, error |-> "", gitlabContext |-> d,
              context |-> convertToProviderContextDefaulting(d)]
        ELSE IF ~g.ok
        THEN [ok |-> FALSE, error |-> g.error, gitlabContext |-> g.context,
              context |-> <<>>]
        ELSE IF ~c.ok
        THEN [ok |-> FALSE, error |-> c.error, gitlabContext |-> g.context,
              context |-> <<>>]
        ELSE [ok |-> TRUE, error |-> "", gitlabContext |-> g.context,
              context |-> [provider |-> "gitlab", owner |-> c.context.owner,
                           name |-> c.context.name,
                           entityType |-> c.context.entityType,
                           entityNumber |-> c.context.entityNumber,
                           entityNumberIsNaN |-> FALSE,
                           actor |-> c.context.actor]]

SetupEnvs ==
    [OVERRIDE_GITLAB_TOKEN : {"", "override-token"},
     CI_JOB_TOKEN : {"", "job-token"},
     GITLAB_TOKEN : {"", "glpat"},
     GITLAB_PROJECT_TOKEN : {"", "project-token"},
     CI_PROJECT_PATH : {<<>>, <<"grp">>, <<"grp", "proj">>},
     CI_PROJECT_ID : {"", "42"},
     CI_MERGE_REQUEST_IID : {"", "5", "0", "x"},
     GITLAB_ISSUE_IID : {"", "7", "-1"},
     CI_COMMIT_REF_NAME : {"feature"},
     CI_DEFAULT_BRANCH : {"main"},
     GITLAB_USER_LOGIN : {"alice"},
     CI_COMMIT_AUTHOR : {""},
     TRIGGER_USERNAME : {""},
     TRIGGER_PHRASE : {<<>>},
     ASSIGNEE_TRIGGER : {<<>>},
     BASE_BRANCH : {""},
     DIRECT_PROMPT : {"", "fix the bug"}]

\* a call of setupGitLabToken
SelectToken ==
    /\ setupRun.pc = "idle"
    /\ \E copy \in TokenCopies :
         setupRun' = [pc |-> "selected", copy |-> copy,
                      selected |-> selectToken(copy, env)]
    /\ UNCHANGED <<env, branches, notes, prep, fin, writes, logs, trig, fetchRun>>

\* provider.setupToken() and one request through the client it builds
ClientRequest ==
    /\ setupRun.pc = "idle"
    /\ \E copy \in TokenCopies :
         LET t == selectToken(copy, env)
         IN /\ t.ok
            /\ setupRun' = [pc |-> "requested", copy |-> copy,
                            credential |-> getGitLabTokenInfo(env).type,
                            token |-> t.token,
                            headers |-> getHeaders(t.token, env)]
    /\ UNCHANGED <<env, branches, notes, prep, fin, writes, logs, trig, fetchRun>>

\* parseGitLabContext() and convertToProviderContext()
ResolveDirect ==
    /\ setupRun.pc = "idle"
    /\ \E copy \in Resolvers :
         setupRun' = [pc |-> "resolved", copy |-> copy,
                      resolved |-> resolveContext(copy, env)]
    /\ UNCHANGED <<env, branches, notes, prep, fin, writes, logs, trig, fetchRun>>

InitSetup ==
    /\ env \in SetupEnvs
    /\ branches = BaseBranches
    /\ notes = <<>>
    /\ prep = PrepInit
    /\ fin = FinInit
    /\ writes = <<>>
    /\ logs = {}
    /\ trig = TrigInit
    /\ fetchRun = FetchIdle
    /\ setupRun = SetupIdle

NextSetup ==
    \/ SelectToken
    \/ ClientRequest
    \/ ResolveDirect

SpecSetup == InitSetup /\ [][NextSetup]_vars

---------------------------------------------------------------------------
(* Properties                                                              *)

\* the five gates of prepare, each done and passed
GatesPassed ==
    /\ prep.token.done /\ prep.token.result
    /\ prep.context.done /\ prep.context.result
    /\ prep.perm.done /\ prep.perm.result
    /\ prep.trigger.done /\ prep.trigger.result
    /\ prep.human.done /\ prep.human.result

GateFailed ==
    \/ prep.token.done /\ ~prep.token.result
    \/ prep.context.done /\ ~prep.context.result
    \/ prep.perm.done /\ ~prep.perm.result
    \/ prep.trigger.done /\ ~prep.trigger.result
    \/ prep.human.done /\ ~prep.human.result

\* C1: no write to the platform (note creation, branch creation, note
\* update) is issued before token setup, context resolution, the permission
\* gate, the trigger evaluator and the human check have all passed; a run in
\* which one of them failed has ended and has issued no write.
C1_NoWriteBeforeGates ==
    /\ (writes # <<>> => GatesPassed)
    /\ (GateFailed => writes = <<>> /\ prep.pc = "exited" /\ notes = <<>>
                      /\ prep.created = {})

C1_Witness ==
    /\ GatesPassed
    /\ Len(writes) >= 2
    /\ writes[1].op = "createNote" /\ writes[1].by = "prepare"
    /\ writes[2].op = "createBranch"

\* a body in PENDING or BRANCH_ANNOUNCED: the pending header first, the marker
\* somewhere
IsPendingBody(body) ==
    /\ body # <<>>
    /\ Head(body) = ThinkingHeader
    /\ includes(body, <<Marker>>)

IsTerminalBody(body) ==
    /\ body # <<>>
    /\ Head(body) \in {SuccessHeader, ErrorHeader}

\* C2: once a finalize invocation, given the comment id by the CI state, has
\* ended without a failed upstream call, the tracking comment is no longer
\* pending: it shows a terminal header.
C2_FinalizeLeavesTerminal ==
    (/\ fin.pc = "exited"
     /\ fin.failedCalls = 0
     /\ fin.commentId = prep.commentId
     /\ prep.commentId \in DOMAIN notes)
    => IsTerminalBody(notes[prep.commentId])

countOf(body, token) == Cardinality({k \in 1..Len(body) : body[k] = token})

\* every run of tokens of the footer sits before the marker
FooterBeforeMarker(body, o) ==
    LET m == indexOf(body, <<Marker>>)
        before(run) == indexOf(body, run) > -1
                       /\ indexOf(body, run) + Len(run) <= m
        metrics == metricsOf(o.executionDetails)
    IN /\ before(<<"---", NL, NL, JobLinkOpen, o.jobUrl, ")">>)
       /\ (o.triggerUsername # "" => before(<<TriggeredBy, o.triggerUsername>>))
       /\ (o.executionDetails.present =>
              \A k \in 1..Len(metrics) : before(<<Bullet>> \o metrics[k]))

\* C3: for a current body that begins with the pending header and holds the
\* marker, the body finalize writes has no pending header, begins with the
\* success header on success and the error header on error, holds the marker
\* exactly once, and has job link, triggering actor and metrics before it.
C3_FinalBodyShape ==
    (fin.written # <<>> /\ IsPendingBody(fin.currentBody))
    => /\ countOf(fin.written, ThinkingHeader) = 0
       /\ Head(fin.written) = (IF fin.options.actionFailed THEN ErrorHeader
                               ELSE SuccessHeader)
       /\ countOf(fin.written, Marker) = 1
       /\ FooterBeforeMarker(fin.written, fin.options)
       /\ notes[fin.commentId] = fin.written

C3_Witness ==
    /\ fin.written # <<>>
    /\ IsPendingBody(fin.currentBody)
    /\ includes(fin.currentBody, <<WorkingOn>>)
    /\ fin.options.executionDetails.present
    /\ fin.options.actionFailed

\* C4: for a non-empty actor whose membership lookup succeeds with level L the
\* gate returns true iff L >= 30: false at 10 and 20, true at 30, 40 and 50.
C4_WriteAccessThreshold ==
    (prep.perm.done /\ gitlabContext.triggerUser # "" /\ prep.perm.lookupOk)
    => /\ prep.perm.result = (prep.perm.level >= 30)
       /\ (prep.perm.level \in {10, 20} => ~prep.perm.result)
       /\ (prep.perm.level \in {30, 40, 50} => prep.perm.result)

C4_Witness ==
    /\ prep.perm.done /\ prep.perm.lookupOk
    /\ prep.perm.level = 30
    /\ prep.perm.result

\* C5: when the membership lookup fails the gate returns true if the CI job
\* token is present, and logs that this path was taken; it returns false if
\* the job token is absent.
C5_AmbientFallback ==
    (prep.perm.done /\ gitlabContext.triggerUser # "" /\ ~prep.perm.lookupOk)
    => /\ prep.perm.result = (env.CI_JOB_TOKEN # "")
       /\ (prep.perm.result =>
             "Running in CI with job token, assuming write permissions" \in logs)
       /\ (~prep.perm.result =>
             "Running in CI with job token, assuming write permissions" \notin logs)

C5_Witness ==
    /\ prep.perm.done /\ ~prep.perm.lookupOk
    /\ env.CI_JOB_TOKEN # ""
    /\ prep.perm.result
    /\ prep.pc = "trigger"

DeleteWrites == {k \in 1..Len(writes) : writes[k].op = "deleteBranch"}

\* the only case in which the cleanup may delete
CleanupMayDelete ==
    /\ fin.options.branchName # ""
    /\ fin.options.baseBranch # ""
    /\ fin.options.branchName # fin.options.baseBranch
    /\ fin.cleanup.compareResp.ok
    /\ fin.cleanup.compareResp.commits = 0
    /\ fin.cleanup.compareResp.diffs = 0

\* C6: the cleanup issues a branch deletion only when branchName and
\* baseBranch are both present and different and the comparison succeeded
\* with no commit and no diff; in every other case no deletion is attempted
\* and shouldDelete is false.
C6_CleanupOnlyWhenEmpty ==
    fin.cleanup # <<>>
    => /\ (DeleteWrites # {} => CleanupMayDelete)
       /\ (fin.cleanup.deletes > 0 <=> DeleteWrites # {})
       /\ (~CleanupMayDelete => /\ fin.cleanup.deletes = 0
                                /\ ~fin.cleanup.shouldDeleteBranch
                                /\ DeleteWrites = {})
       /\ \A k \in DeleteWrites : writes[k].target = fin.options.branchName

C6_Witness ==
    /\ fin.cleanup # <<>>
    /\ fin.cleanup.deletes = 1
    /\ DeleteWrites # {}
    /\ fin.options.branchName \notin branches

C8_DirectPromptPrecedence ==
    (trig.done /\ trig.context.inputs.directPrompt # "")
    => trig.result /\ trig.fetches = 0

C8_Witness ==
    /\ trig.done
    /\ trig.context.inputs.directPrompt # ""
    /\ trig.context.mergeRequestIid = "" /\ trig.context.issueIid = ""
    /\ trig.result

sameLetter(a, b) == a = b \/ ({a, b} = {"c", "C"})

\* T contains P when case is ignored
ContainsIgnoreCase(T, P) ==
    \E i \in 0..(Len(T) - Len(P)) :
        \A j \in 1..Len(P) : sameLetter(T[i + j], P[j])

\* C9: without a direct prompt, with an entity and with both fetches
\* succeeding, the evaluator returns true whenever the title, the description
\* or a comment body contains the trigger phrase ignoring case.
C9_TriggerIgnoresCase ==
    (/\ trig.done
     /\ trig.context.inputs.directPrompt = ""
     /\ (trig.context.mergeRequestIid # "" \/ trig.context.issueIid # "")
     /\ trig.entityOk /\ trig.notesOk
     /\ ContainsIgnoreCase(trig.T, trig.context.inputs.triggerPhrase))
    => trig.result

C9_Witness ==
    /\ trig.done
    /\ trig.context.inputs.directPrompt = ""
    /\ trig.context.issueIid # ""
    /\ trig.entityOk /\ trig.notesOk
    /\ trig.slot = "note"
    /\ ContainsIgnoreCase(trig.T, trig.context.inputs.triggerPhrase)
    /\ ~includes(trig.T, trig.context.inputs.triggerPhrase)
    /\ trig.result

\* C10: when the trigger evaluator has returned false the prepare run has
\* stopped with exit code 0, no tracking comment, no branch and no write.
C10_NoTriggerStopsCleanly ==
    (prep.trigger.done /\ ~prep.trigger.result)
    => /\ prep.pc = "exited"
       /\ prep.exitCode = 0
       /\ ~prep.failureSignal
       /\ prep.commentId = 0
       /\ notes = <<>>
       /\ prep.created = {}
       /\ writes = <<>>

C10_Witness ==
    /\ prep.trigger.done /\ ~prep.trigger.result
    /\ prep.trigger.fetches = 2
    /\ prep.exitCode = 0


\* a failed write the prepare run issued
PrepareWriteFailed(op) ==
    \E k \in 1..Len(writes) :
        writes[k].by = "prepare" /\ writes[k].op = op /\ ~writes[k].ok

\* a prepare stage threw: configuration, authorization, bot actor, comment
\* creation, data fetch or branch setup
PrepareStageThrew ==
    \/ prep.token.done /\ ~prep.token.result
    \/ prep.context.done /\ ~prep.context.result
    \/ prep.perm.done /\ ~prep.perm.result
    \/ prep.human.done /\ ~prep.human.result
    \/ PrepareWriteFailed("createNote")
    \/ prep.fetch.done /\ ~prep.fetch.result
    \/ PrepareWriteFailed("createBranch")

\* C11: whenever a prepare stage throws, the prepare process has written the
\* failure signal with the error message and has exited with a non-zero code.
C11_FailureSignalOnThrow ==
    PrepareStageThrew
    => /\ prep.pc = "exited"
       /\ prep.exitCode > 0
       /\ prep.failureSignal
       /\ prep.error # ""

C11_Witness ==
    /\ prep.fetch.done /\ ~prep.fetch.result
    /\ prep.commentId # 0
    /\ prep.failureSignal
    /\ prep.exitCode = 1


\* C12: when prepare failed after the tracking comment was created, a
\* finalize invocation that ended without a failed upstream call has left the
\* comment finalized with the error header, never the success header.
C12_PrepareFailureFinalizedAsError ==
    (/\ prep.exitCode = 1
     /\ prep.commentId # 0
     /\ fin.pc = "exited"
     /\ fin.failedCalls = 0)
    => /\ fin.options.actionFailed
       /\ bodyOf(notes, prep.commentId) # <<>>
       /\ Head(bodyOf(notes, prep.commentId)) = ErrorHeader


FinalizeWrites ==
    {k \in 1..Len(writes) : writes[k].by = "finalize" /\ writes[k].op = "updateNote"}

\* C13: an upstream failure while finalize reads the current body or
\* overwrites the comment ends the finalize process with a non-zero exit code
\* and an error; after a failed read no overwrite is attempted.
C13_FinalizeFailurePropagates ==
    /\ (fin.read = "failed"
        => /\ fin.pc = "exited" /\ fin.exitCode > 0 /\ fin.error # ""
           /\ FinalizeWrites = {})
    /\ ((\E k \in FinalizeWrites : ~writes[k].ok)
        => fin.pc = "exited" /\ fin.exitCode > 0 /\ fin.error # "")

C13_Witness ==
    /\ fin.read = "ok"
    /\ \E k \in FinalizeWrites : ~writes[k].ok
    /\ prep.commentId \in DOMAIN notes
    /\ fin.exitCode = 1


\* C14: when the notes were read and the tracking comment is not among them,
\* finalize ends without failing the job (exit code 0), does not overwrite
\* anything as if it had succeeded, and has logged a warning.  The code has
\* no such log line: any line finalize logs about the comment would do.
C14_MissingCommentWarns ==
    (fin.pc = "exited" /\ fin.read = "ok" /\ ~fin.found)
    => /\ fin.exitCode = 0
       /\ fin.written = <<>>
       /\ \E line \in logs : line = "Tracking comment not found"


\* C15: a second finalize invocation with the same outcome and details on the
\* comment the first one finalized writes the body the first one wrote: one
\* terminal header, one footer, no further branch or merge-request link.
C15_FinalizeIdempotent ==
    (fin.again /\ fin.written # <<>> /\ fin.currentBody = fin.first)
    => /\ fin.written = fin.first
       /\ countOf(fin.written, SuccessHeader) + countOf(fin.written, ErrorHeader) = 1
       /\ countOf(fin.written, JobLinkOpen) = 1
       /\ countOf(fin.written, "View branch") = countOf(fin.first, "View branch")
       /\ countOf(fin.written, "[Create a") = countOf(fin.first, "[Create a")


\* C16: after the branch B was announced and finalize ran with B kept, the
\* body finalize wrote holds exactly one working-on-branch line.
C16_OneBranchLine ==
    (/\ fin.written # <<>>
     /\ ~fin.again
     /\ prep.announce.done /\ prep.announce.ok
     /\ fin.options.branchName = prep.announce.branch
     /\ includes(fin.currentBody, <<WorkingOn>>)
     /\ ~fin.cleanup.shouldDeleteBranch)
    => countOf(fin.written, WorkingOn) = 1


\* C17: an announcement that went through keeps every part of the body the
\* comment had: what stood before the marker still stands first, the marker
\* and what followed it still stand last, and only a working-on-branch line
\* came in between.
C17_AnnounceKeepsBody ==
    (prep.announce.done /\ prep.announce.ok)
    => LET before == prep.announce.before
           after == prep.announce.after
           m == indexOf(before, <<Marker>>)
       IN /\ \A k \in 1..Len(before) : \E j \in 1..Len(after) : after[j] = before[k]
          /\ (m > -1 =>
                /\ Len(after) >= Len(before)
                /\ SubSeq(after, 1, m) = SubSeq(before, 1, m)
                /\ SubSeq(after, Len(after) - (Len(before) - m) + 1, Len(after))
                     = SubSeq(before, m + 1, Len(before)))


\* C18: an announcement that met an upstream error leaves the comment as it
\* was, logs the error, and does not end the run: prepare goes on to the next
\* stage, and if it fails later it is not with the announcement's error.
C18_AnnounceNeverAborts ==
    (prep.announce.done /\ ~prep.announce.ok)
    => /\ prep.announce.after = prep.announce.before
       /\ "Error updating comment with branch" \in logs
       /\ prep.pc \in {"prompt", "exited"}
       /\ (prep.pc = "exited" /\ prep.exitCode # 0 => prep.error = "Create prompt failed")

C18_Witness ==
    /\ prep.announce.done /\ ~prep.announce.ok
    /\ prep.pc = "exited" /\ prep.exitCode = 0
    /\ IsPendingBody(bodyOf(notes, prep.commentId))
    /\ ~includes(bodyOf(notes, prep.commentId), <<WorkingOn>>)


\* a link to a branch: the announced line, a view-branch link or a
\* create-merge-request link
BranchLinks(body) ==
    countOf(body, WorkingOn) + countOf(body, "View branch") + countOf(body, "[Create a")

\* C19 as stated: a finalized comment of a run whose cleanup reported
\* shouldDelete holds no branch link and no create-merge-request link.
C19_NoLinkWhenDeleted ==
    (fin.written # <<>> /\ fin.cleanup.shouldDeleteBranch)
    => BranchLinks(fin.written) = 0

\* C19, amended: when the cleanup reported shouldDelete, finalize inserts
\* neither a branch link nor a create-merge-request link: the body it writes
\* holds exactly the links the body it read held.
C19_NoLinkInsertedWhenDeleted ==
    (fin.written # <<>> /\ fin.cleanup.shouldDeleteBranch)
    => /\ countOf(fin.written, WorkingOn) = countOf(fin.currentBody, WorkingOn)
       /\ countOf(fin.written, "View branch") = countOf(fin.currentBody, "View branch")
       /\ countOf(fin.written, "[Create a") = countOf(fin.currentBody, "[Create a")

C19_Witness ==
    /\ fin.written # <<>>
    /\ fin.cleanup.shouldDeleteBranch
    /\ fin.cleanup.deletes = 1
    /\ BranchLinks(fin.currentBody) = 0
    /\ BranchLinks(fin.written) = 0

\* the calls that created a note and the calls that updated one
CreateWrites == {k \in 1..Len(writes) : writes[k].op = "createNote"}

UpdateWrites == {k \in 1..Len(writes) : writes[k].op = "updateNote"}

\* C20: within one run at most one tracking comment is created, and every
\* later update of it (the branch announcement, the in-flight progress updates
\* and finalize) targets exactly the id the create call returned; the id the
\* finalize step works with is that id too
C20_SingleCommentId ==
    /\ Cardinality(CreateWrites) <= 1
    /\ \A k \in CreateWrites : writes[k].ok => prep.commentId = writes[k].target
    /\ \A k \in UpdateWrites :
         /\ writes[k].target = prep.commentId
         /\ \E c \in CreateWrites :
              c < k /\ writes[c].ok /\ writes[c].target = writes[k].target
    /\ fin.pc # "idle" => fin.commentId = prep.commentId

C20_Witness ==
    /\ \E c \in CreateWrites : writes[c].ok
    /\ \A who \in {"prepare", "assistant", "finalize"} :
         \E k \in UpdateWrites : writes[k].by = who /\ writes[k].ok
    /\ fin.pc = "exited" /\ fin.commentId = prep.commentId /\ fin.commentId # 0

\* C21: for every comparison that succeeded with no commit and no diff, of
\* a branch that differs from its base branch, the cleanup returns
\* shouldDelete = true with an empty branch link, whether the deletion call
\* that it issued succeeded or failed
C21_CleanupTotality ==
    (fin.cleanup # <<>> /\ fin.cleanup.compares = 1 /\ fin.cleanup.compareResp.ok
     /\ fin.cleanup.compareResp.commits = 0 /\ fin.cleanup.compareResp.diffs = 0)
    => /\ fin.options.branchName # fin.options.baseBranch
       /\ fin.cleanup.shouldDeleteBranch
       /\ fin.cleanup.branchLink = <<>>
       /\ \E k \in DeleteWrites : writes[k].target = fin.options.branchName

C21_Witness ==
    /\ fin.cleanup # <<>> /\ fin.cleanup.compares = 1 /\ fin.cleanup.compareResp.ok
    /\ fin.cleanup.compareResp.commits = 0 /\ fin.cleanup.compareResp.diffs = 0
    /\ fin.cleanup.shouldDeleteBranch
    /\ \E k \in DeleteWrites : ~writes[k].ok
    /\ fin.options.branchName \in branches
    /\ "Failed to delete branch" \in logs

\* the branch-creation calls of the run
CreateBranchWrites == {k \in 1..Len(writes) : writes[k].op = "createBranch"}

\* C22: when the context identifies issue N and the fetched issue is present,
\* a setupBranch that returned used baseBranch = the base-branch override if
\* set, otherwise the repository default, and the name claude-issue-N; a
\* branch of that name that existed was left alone, otherwise exactly one
\* creation of that branch from baseBranch was issued; in both cases
\* currentBranch = claudeBranch = claude-issue-N
C22_IssueBranchPlan ==
    (prep.planned /\ gitlabContext.issueIid # "" /\ prep.data.issue.present)
    => LET name == "claude-issue-" \o env.GITLAB_ISSUE_IID
       IN /\ prep.plan.baseBranch = (IF env.BASE_BRANCH # "" THEN env.BASE_BRANCH
                                     ELSE Upstream.defaultBranch)
          /\ prep.plan.currentBranch = name
          /\ prep.plan.claudeBranch = name
          /\ prep.gets = 1
          /\ name \in branches
          /\ IF name \in prep.created
             THEN /\ Cardinality(CreateBranchWrites) = 1
                  /\ \A k \in CreateBranchWrites : writes[k].ok /\ writes[k].target = name
                  /\ prep.createRef = prep.plan.baseBranch
             ELSE CreateBranchWrites = {}

C22_Witness ==
    /\ prep.planned /\ prep.data.issue.present
    /\ prep.plan.claudeBranch = "claude-issue-7"
    /\ prep.plan.baseBranch = "develop"
    /\ prep.created = {"claude-issue-7"}
    /\ prep.createRef = "develop"
    /\ CreateBranchWrites # {}

\* C23: when the context identifies a merge request and the fetched merge
\* request is present, setupBranch returns baseBranch = the merge request's
\* target branch and currentBranch = its source branch, sets no claudeBranch,
\* and makes no branch-existence and no branch-creation call
C23_MergeRequestBranchPlan ==
    (prep.planned /\ gitlabContext.mergeRequestIid # "" /\ prep.data.mergeRequest.present)
    => /\ prep.plan.baseBranch = Upstream.targetBranch
       /\ prep.plan.currentBranch = Upstream.sourceBranch
       /\ prep.plan.claudeBranch = ""
       /\ prep.gets = 0
       /\ CreateBranchWrites = {}
       /\ prep.created = {}
       /\ prep.createRef = ""

C23_Witness ==
    /\ prep.planned /\ prep.data.mergeRequest.present
    /\ env.CI_MERGE_REQUEST_IID = "5" /\ env.GITLAB_ISSUE_IID = "7"
    /\ env.BASE_BRANCH = "develop"
    /\ prep.plan = [baseBranch |-> "release", currentBranch |-> "feature",
                    claudeBranch |-> ""]
    /\ prep.pc = "exited" /\ prep.exitCode = 0

\* C24: if creating the issue branch fails, setupBranch throws and returns no
\* branch plan, so the run aborts before the branch is announced on the
\* tracking comment
C24_CreateFailureAborts ==
    (\E k \in CreateBranchWrites : ~writes[k].ok)
    => /\ prep.pc = "exited" /\ prep.exitCode = 1 /\ prep.failureSignal
       /\ ~prep.planned /\ prep.plan = NoPlan
       /\ prep.created = {}
       /\ ~prep.announce.done
       /\ \A k \in UpdateWrites : writes[k].by # "prepare"
       /\ ~includes(bodyOf(notes, prep.commentId), <<WorkingOn>>)

C24_Witness ==
    /\ \E k \in CreateBranchWrites : ~writes[k].ok /\ writes[k].target = "claude-issue-7"
    /\ prep.pc = "exited" /\ prep.exitCode = 1
    /\ prep.fetch.done /\ prep.fetch.result
    /\ prep.commentId \in DOMAIN notes
    /\ IsPendingBody(notes[prep.commentId])
    /\ "claude-issue-7" \notin branches

\* C25: every result fetch returns has exactly one of issue and mergeRequest
\* populated, the issue when the entity is an issue and the merge request
\* otherwise, and a fetch that cannot obtain the primary entity throws
\* instead of returning a result with neither
C25_ExactlyOneEntity ==
    /\ fetchRun.pc = "returned"
       => /\ fetchRun.result.issue.present # fetchRun.result.mergeRequest.present
          /\ fetchRun.result.issue.present <=> ~fetchRun.isMR
          /\ fetchRun.status["entity"] = "fulfilled"
    /\ (fetchRun.pc \in {"returned", "threw"} /\ fetchRun.status["entity"] = "rejected")
       => /\ fetchRun.pc = "threw"
          /\ fetchRun.result = NoFetchResult

C25_Witness ==
    /\ fetchRun.pc = "threw" /\ fetchRun.copy = "part_007" /\ fetchRun.isMR
    /\ fetchRun.status["entity"] = "rejected"
    /\ fetchRun.status["notes"] = "fulfilled"
    /\ fetchRun.status["commits"] = "fulfilled"
    /\ fetchRun.status["diffs"] = "fulfilled"
    /\ fetchRun.order[4] = "entity"

\* the lists a result carries
resultLists(run) ==
    IF run.isMR
    THEN [notes |-> run.result.mergeRequest.comments,
          commits |-> run.result.mergeRequest.commits,
          diffs |-> run.result.mergeRequest.files]
    ELSE [notes |-> run.result.issue.comments, commits |-> <<>>, diffs |-> <<>>]

\* C26: the comments, commits and diffs fetches are independent of each
\* other: whichever of them fail and in whatever order the requests settle,
\* a fetch whose primary entity was fetched returns, with an empty list for
\* exactly the failed fields and the fetched values for the others
C26_OptionalFetchesIndependent ==
    (fetchRun.pc \in {"returned", "threw"} /\ fetchRun.status["entity"] = "fulfilled")
    => /\ fetchRun.pc = "returned"
       /\ \A r \in {"notes", "commits", "diffs"} :
            /\ fetchRun.status[r] = "rejected" => resultLists(fetchRun)[r] = <<>>
            /\ fetchRun.status[r] = "fulfilled"
               => Len(resultLists(fetchRun)[r])
                  = (IF r = "notes" THEN 2 ELSE 1)

\* C27: additions is the number of lines of the diff text that begin with +
\* other than +++ header lines, deletions the number of lines that begin
\* with - other than --- header lines; one header pair, one added and one
\* removed line give additions = 1 and deletions = 1
C27_DiffCountsSkipHeaders ==
    fetchRun.pc = "counted"
    => /\ fetchRun.additions
          = Cardinality({i \in 1..Len(fetchRun.lines) :
                           /\ fetchRun.lines[i] # <<>>
                           /\ fetchRun.lines[i][1] = "+"
                           /\ ~(Len(fetchRun.lines[i]) >= 3
                                /\ fetchRun.lines[i][2] = "+"
                                /\ fetchRun.lines[i][3] = "+")})
       /\ fetchRun.deletions
          = Cardinality({i \in 1..Len(fetchRun.lines) :
                           /\ fetchRun.lines[i] # <<>>
                           /\ fetchRun.lines[i][1] = "-"
                           /\ ~(Len(fetchRun.lines[i]) >= 3
                                /\ fetchRun.lines[i][2] = "-"
                                /\ fetchRun.lines[i][3] = "-")})

\* C28: the human check throws, aborting the run, if and only if the
\* actor's profile was retrieved and its bot flag is true; when the profile
\* lookup fails the check logs a warning and returns normally, so that the
\* run proceeds
C28_HumanCheckThrowsOnlyForBot ==
    (prep.human.done /\ gitlabContext.triggerUser # "")
    => /\ prep.human.fetches = 1
       /\ ~prep.human.result <=> (prep.human.lookupOk /\ prep.human.bot)
       /\ ~prep.human.result
          => /\ prep.pc = "exited" /\ prep.exitCode = 1 /\ prep.failureSignal
             /\ prep.error = "Only human users can trigger Claude"
             /\ writes = <<>>
       /\ ~prep.human.lookupOk
          => /\ "Could not verify actor" \in logs
             /\ prep.error # "Only human users can trigger Claude"

C28_Witness ==
    /\ prep.human.done /\ gitlabContext.triggerUser # ""
    /\ ~prep.human.lookupOk /\ prep.human.result
    /\ "Could not verify actor" \in logs
    /\ prep.commentId \in DOMAIN notes
    /\ prep.pc = "exited" /\ prep.exitCode = 0

\* C29: a run whose actor resolves to the empty string is not failed on that
\* account: neither the permission gate nor the human check aborts the run
\* because the actor is empty
C29_EmptyActorNotFatal ==
    (prep.context.done /\ prep.context.result /\ gitlabContext.triggerUser = "")
    => /\ prep.perm.done => prep.perm.result
       /\ prep.human.done => prep.human.result
       /\ prep.error # "Actor does not have write permissions to the repository"

\* C30: an upstream fetch error inside one trigger sub-check makes only that
\* sub-check false and does not abort the evaluation: when the entity fetch
\* fails and the comment-list fetch succeeds with a comment that contains the
\* phrase, the evaluator returns true; when both fetches fail it returns
\* false after having tried both
C30_SubCheckFailureIsLocal ==
    (/\ trig.done
     /\ trig.context.inputs.directPrompt = ""
     /\ (trig.context.mergeRequestIid # "" \/ trig.context.issueIid # "")
     /\ ~trig.entityOk)
    => /\ trig.fetches = 2
       /\ (/\ trig.notesOk /\ trig.slot = "note"
           /\ ContainsIgnoreCase(trig.T, trig.context.inputs.triggerPhrase))
          => (trig.result /\ trig.why = "comment")
       /\ ~trig.notesOk => ~trig.result

C30_Witness ==
    /\ trig.done
    /\ trig.context.inputs.directPrompt = ""
    /\ trig.context.mergeRequestIid # ""
    /\ ~trig.entityOk /\ trig.notesOk
    /\ trig.slot = "note"
    /\ trig.T = <<"@", "C">>
    /\ trig.context.inputs.triggerPhrase = <<"@", "c">>
    /\ trig.result

\* C31: on total connectivity failure, where every upstream fetch the
\* trigger evaluator makes fails, the evaluator propagates the error to its
\* caller rather than returning false
C31_ConnectivityFailurePropagates ==
    (/\ trig.done
     /\ trig.context.inputs.directPrompt = ""
     /\ (trig.context.mergeRequestIid # "" \/ trig.context.issueIid # "")
     /\ ~trig.entityOk /\ ~trig.notesOk)
    => trig.throws


\* C32: with a direct-prompt override set and neither a merge-request nor an
\* issue identifier present, context resolution does not fail: the run
\* proceeds to the gates
C32_DirectPromptNeedsNoEntity ==
    (/\ prep.context.done
     /\ env.DIRECT_PROMPT # ""
     /\ env.CI_MERGE_REQUEST_IID = "" /\ env.GITLAB_ISSUE_IID = ""
     /\ env.CI_PROJECT_PATH # <<>> /\ env.CI_PROJECT_ID # "")
    => /\ prep.context.result
       /\ ~prep.failureSignal

\* C33: every context the context resolver produces has entityNumber > 0; an
\* absent, non-numeric, zero or negative identifier never yields a context
C33_EntityNumberPositive ==
    (setupRun.pc = "resolved" /\ setupRun.resolved.ok)
    => /\ ~setupRun.resolved.context.entityNumberIsNaN
       /\ setupRun.resolved.context.entityNumber > 0

\* C34: context resolution fails with an error naming the missing variable
\* when the repository path or the project id is absent, and never returns a
\* context whose repository path or project id is empty
C34_MissingProjectSignalFails ==
    setupRun.pc = "resolved"
    => /\ env.CI_PROJECT_PATH = <<>>
            => /\ ~setupRun.resolved.ok
               /\ setupRun.resolved.error
                    = "CI_PROJECT_PATH environment variable is required"
       /\ (env.CI_PROJECT_PATH # <<>> /\ env.CI_PROJECT_ID = "")
            => /\ ~setupRun.resolved.ok
               /\ setupRun.resolved.error
                    = "CI_PROJECT_ID environment variable is required"
       /\ setupRun.resolved.ok
            => /\ setupRun.resolved.gitlabContext.projectPath # <<>>
               /\ setupRun.resolved.gitlabContext.projectId # ""

\* all four credential variables are named by the error of a failed selection
AllTokenNames ==
    {"OVERRIDE_GITLAB_TOKEN", "CI_JOB_TOKEN", "GITLAB_TOKEN", "GITLAB_PROJECT_TOKEN"}

\* C35: credential selection returns the first credential present in the
\* order override, CI job, personal, project; when none is present it fails
\* with an error that enumerates all four options
C35_CredentialPrecedence ==
    setupRun.pc = "selected"
    => LET r == setupRun.selected
       IN /\ env.OVERRIDE_GITLAB_TOKEN # ""
               => r.ok /\ r.token = env.OVERRIDE_GITLAB_TOKEN
          /\ (env.OVERRIDE_GITLAB_TOKEN = "" /\ env.CI_JOB_TOKEN # "")
               => r.ok /\ r.token = env.CI_JOB_TOKEN
          /\ (/\ env.OVERRIDE_GITLAB_TOKEN = "" /\ env.CI_JOB_TOKEN = ""
              /\ env.GITLAB_TOKEN # "")
               => r.ok /\ r.token = env.GITLAB_TOKEN
          /\ (/\ env.OVERRIDE_GITLAB_TOKEN = "" /\ env.CI_JOB_TOKEN = ""
              /\ env.GITLAB_TOKEN = "" /\ env.GITLAB_PROJECT_TOKEN # "")
               => r.ok /\ r.token = env.GITLAB_PROJECT_TOKEN
          /\ (/\ env.OVERRIDE_GITLAB_TOKEN = "" /\ env.CI_JOB_TOKEN = ""
              /\ env.GITLAB_TOKEN = "" /\ env.GITLAB_PROJECT_TOKEN = "")
               => ~r.ok /\ r.names = AllTokenNames

\* C36: a request authenticated with the CI job token carries it in the
\* JOB-TOKEN header, and one authenticated with a personal or project token
\* carries it in the PRIVATE-TOKEN header
C36_HeaderMatchesCredential ==
    setupRun.pc = "requested"
    => /\ setupRun.credential = "job"
            => /\ setupRun.headers.header = "JOB-TOKEN"
               /\ setupRun.headers.value = env.CI_JOB_TOKEN
       /\ setupRun.credential \in {"personal", "project"}
            => /\ setupRun.headers.header = "PRIVATE-TOKEN"
               /\ setupRun.headers.value = setupRun.token

\* both a merge-request and an issue identifier are present
BothIdentifiers == env.CI_MERGE_REQUEST_IID # "" /\ env.GITLAB_ISSUE_IID # ""

TheMergeRequest == [kind |-> "merge_requests", iid |-> env.CI_MERGE_REQUEST_IID]

\* C37: with both identifiers present every component treats the run as a
\* merge-request run: the context's entity type and number, the trigger
\* fetches, the tracking comment's target, the data fetch, the branch plan
\* and finalize's requests refer to the merge request, none to the issue
C37_MergeRequestWins ==
    BothIdentifiers
    => /\ (prep.context.done /\ prep.context.result)
            => /\ prep.context.log = "merge_request"
               /\ prep.context.number = parseInt(env.CI_MERGE_REQUEST_IID).val
       /\ (prep.trigger.done /\ prep.trigger.fetches > 0)
            => prep.trigger.on = TheMergeRequest
       /\ prep.commentOn \in {NoEndpoint, TheMergeRequest}
       /\ prep.fetch.done
            => /\ ~prep.fetch.isIssue
               /\ prep.fetch.number = parseInt(env.CI_MERGE_REQUEST_IID).val
       /\ (prep.fetch.done /\ prep.fetch.result)
            => prep.data.mergeRequest.present /\ ~prep.data.issue.present
       /\ prep.planned
            => /\ prep.plan = [baseBranch |-> Upstream.targetBranch,
                               currentBranch |-> Upstream.sourceBranch,
                               claudeBranch |-> ""]
               /\ CreateBranchWrites = {}
       /\ fin.on \in {NoEndpoint, TheMergeRequest}

C37_Witness ==
    /\ BothIdentifiers
    /\ prep.trigger.done /\ prep.trigger.fetches > 0
    /\ prep.commentOn = TheMergeRequest
    /\ prep.planned
    /\ fin.read = "ok" /\ fin.on = TheMergeRequest

endsWith(body, run) ==
    /\ Len(body) >= Len(run)
    /\ SubSeq(body, Len(body) - Len(run) + 1, Len(body)) = run

\* C39: when the body finalize read does not contain the marker, the body it
\* writes still begins with the terminal header, has the metadata footer
\* appended at its end, and gains neither a branch link nor a
\* create-merge-request link
C39_NoMarkerFinalBody ==
    (fin.written # <<>> /\ ~includes(fin.currentBody, <<Marker>>))
    => LET o == finalCommentArgs(fin.options, fin.cleanup)
       IN /\ Head(fin.written) = IF o.actionFailed THEN ErrorHeader
                                 ELSE SuccessHeader
          /\ endsWith(fin.written, detailsSection(o))
          /\ ~includes(fin.written, <<Marker>>)
          /\ BranchLinks(fin.written) = BranchLinks(fin.currentBody)

C39_Witness ==
    /\ fin.written # <<>>
    /\ fin.currentBody # <<>>
    /\ ~includes(fin.currentBody, <<Marker>>)
    /\ finalCommentArgs(fin.options, fin.cleanup).branchLink # <<>>
    /\ finalCommentArgs(fin.options, fin.cleanup).prLink # <<>>
    /\ notes[fin.commentId] = fin.written

\* C40: comment-body overwrites are last-write-wins: when a progress update
\* overwrites the tracking comment between finalize's read and finalize's
\* write, finalize's write replaces that update and the final body is derived
\* only from the body finalize read
C40_LastWriteWins ==
    (fin.overwritten # <<>> /\ fin.written # <<>>)
    => /\ notes[fin.commentId] = fin.written
       /\ fin.written = finalBody(fin.currentBody,
                                  finalCommentArgs(fin.options, fin.cleanup))
       /\ includes(fin.written, <<"- [x] read the code">>)
            => includes(fin.currentBody, <<"- [x] read the code">>)

C40_Witness ==
    /\ fin.overwritten # <<>> /\ fin.written # <<>>
    /\ fin.found /\ fin.overwritten # fin.currentBody
    /\ notes[fin.commentId] = fin.written
    /\ ~includes(fin.written, <<"- [x] read the code">>)
    /\ writes[Len(writes)].by = "finalize"
    /\ writes[Len(writes) - 1].by = "assistant"

====
